---- MODULE Spec2Model ----
(***************************************************************************)
(* Model of the two-venue arbitrage engine of kyleworkinghard/tradetaoli:  *)
(* the CLI cycle loop (commands/arbitrage.py), the account validation of   *)
(* ExchangeFactory (core/exchange_factory.py) and the position execution   *)
(* and hedging engine UnifiedArbitrageStrategy                             *)
(* (core/unified_arbitrage_strategy.py).                                   *)
(*                                                                         *)
(* The program is one asyncio task, so the model is one sequential process *)
(* with a program counter pc.  Every venue call (book fetch, order         *)
(* placement, status poll, cancel) is an input chosen by the venue: the    *)
(* actions draw its outcome with \E.                                       *)
(*                                                                         *)
(* Units.  Prices are integers.  A mid price (bid+ask)/2 is kept doubled   *)
(* (mid2 = bid+ask) and so are the spreads stored in a position            *)
(* (entry_spread holds 2*|price_a - price_b|), so that the comparisons of  *)
(* the code stay exact in integer arithmetic.  Quantities are counted in   *)
(* units of the `amount` argument of execute_arbitrage.                    *)
(***************************************************************************)
EXTENDS Integers, Sequences, FiniteSets, TLC

(***************************************************************************)
(* Bounds of the model.                                                    *)
(***************************************************************************)
\* cycles of the execute command's loop that are followed to their end; the
\* cycle after them is followed up to the creation of its strategy
MaxCycles == 1
\* times the best price of a venue moves while one maker order is placed
MaxPriceMoves == 1
\* calls of stop_monitoring / cleanup that are followed on one strategy
MaxStopCalls == 3
\* poll ticks of one monitor run that are followed from await to await
MaxTicks == 2

(***************************************************************************)
(* Program constants.                                                      *)
(***************************************************************************)
spread_threshold_open == 75
spread_threshold_reverse == 60
\* max_retries of _place_limit_order -> _place_limit_order_with_chase
chase_max_retries == 3
\* max_retries passed to _wait_for_order_fill_with_retry
hedge_max_retries == 3
\* the monitors give up when check_count exceeds this many 0.1 s ticks
monitor_max_checks == 600
\* max_wait of _wait_for_order_fill_with_retry: seconds per wait
max_wait == 30
\* min_hold_time: seconds after the opening in which nothing is checked
min_hold_time == 60

Venues == {"a", "b"}
Phases == {"open", "add", "close"}

Abs(x) == IF x < 0 THEN -x ELSE x
Other(l) == IF l = "a" THEN "b" ELSE "a"

(***************************************************************************)
(* Accounts (accounts.json): id -> exchange, as the account commands write *)
(* them (lower-case venue names).  NoExchange: the id is not in the file.  *)
(***************************************************************************)
NoExchange == "none"
AccountIds == 1..4
Accounts(id) ==
    CASE id = 1 -> "aster"
      [] id = 2 -> "okx"
      [] id = 3 -> "aster"
      [] OTHER  -> NoExchange

\* the account pairs given on the command line
InputPairs == { <<1, 2>>, <<1, 3>>, <<1, 1>>, <<1, 4>>, <<4, 2>> }

\* str.title() on the lower-cased exchange name (create_exchange_info)
Title(name) ==
    CASE name = "aster" -> "Aster"
      [] name = "okx" -> "Okx"
      [] name = "backpack" -> "Backpack"
      [] OTHER -> name

(***************************************************************************)
(* ExchangeFactory.validate_accounts: "ok" with the two exchange names, or *)
(* the exception it raises.                                                *)
(***************************************************************************)
validate_accounts_nocheck(account_id_a, account_id_b) ==
    IF Accounts(account_id_a) = NoExchange \/ Accounts(account_id_b) = NoExchange
    THEN [ok |-> FALSE, exchange_a |-> NoExchange, exchange_b |-> NoExchange]
    ELSE [ok |-> TRUE, exchange_a |-> Accounts(account_id_a),
          exchange_b |-> Accounts(account_id_b)]

validate_accounts(account_id_a, account_id_b) ==
    IF Accounts(account_id_a) = NoExchange \/ Accounts(account_id_b) = NoExchange
    THEN [ok |-> FALSE, exchange_a |-> NoExchange, exchange_b |-> NoExchange]
    ELSE IF Accounts(account_id_a) = Accounts(account_id_b)
    THEN [ok |-> FALSE, exchange_a |-> Accounts(account_id_a),
          exchange_b |-> Accounts(account_id_b)]
    ELSE [ok |-> TRUE, exchange_a |-> Accounts(account_id_a),
          exchange_b |-> Accounts(account_id_b)]

(***************************************************************************)
(* Order books.  get_orderbook answers a book (bids descending, asks       *)
(* ascending), an empty book, or nothing (None, or it raises).             *)
(***************************************************************************)
NoBook == [ok |-> FALSE, bids |-> <<>>, asks |-> <<>>]
EmptyBook == [ok |-> TRUE, bids |-> <<>>, asks |-> <<>>]
MkBook(bid, ask) == [ok |-> TRUE, bids |-> <<bid, bid - 1>>, asks |-> <<ask, ask + 1>>]
GoodBooks == { MkBook(100, 102), MkBook(200, 202) }
Books == GoodBooks \cup {NoBook, EmptyBook}

\* a book the code can index: truthy, with a best bid and a best ask
Readable(book) == book.ok /\ Len(book.bids) > 0 /\ Len(book.asks) > 0

NoPrice == -1     \* Python None where a price is expected
Unset == -2       \* attribute never assigned (getattr default applies)

(***************************************************************************)
(* _get_smart_order_price: maker price for "limit", taker price for        *)
(* "market"; None when the book cannot be read.                            *)
(***************************************************************************)
get_smart_order_price(book, side, order_type) ==
    IF ~Readable(book) THEN NoPrice
    ELSE IF order_type = "limit"
         THEN (IF side = "buy" THEN book.bids[1] ELSE book.asks[1])
         ELSE (IF side = "buy" THEN book.asks[1] ELSE book.bids[1])

(***************************************************************************)
(* get_spread: the two directional spreads, the best one and both mids     *)
(* (doubled); all zero when either book cannot be read.                    *)
(***************************************************************************)
SpreadFailed == [spread_1 |-> 0, spread_2 |-> 0, best_spread |-> 0,
                 mid2_a |-> 0, mid2_b |-> 0]

get_spread_least(book_a, book_b) ==
    IF ~Readable(book_a) \/ ~Readable(book_b) THEN SpreadFailed
    ELSE LET spread_1 == book_b.bids[1] - book_a.asks[1]
             spread_2 == book_a.bids[1] - book_b.asks[1]
         IN [spread_1 |-> spread_1, spread_2 |-> spread_2,
             best_spread |-> IF spread_1 < spread_2 THEN spread_1 ELSE spread_2,
             mid2_a |-> book_a.bids[1] + book_a.asks[1],
             mid2_b |-> book_b.bids[1] + book_b.asks[1]]

get_spread(book_a, book_b) ==
    IF ~Readable(book_a) \/ ~Readable(book_b) THEN SpreadFailed
    ELSE LET spread_1 == book_b.bids[1] - book_a.asks[1]
             spread_2 == book_a.bids[1] - book_b.asks[1]
         IN [spread_1 |-> spread_1, spread_2 |-> spread_2,
             best_spread |-> IF spread_1 > spread_2 THEN spread_1 ELSE spread_2,
             mid2_a |-> book_a.bids[1] + book_a.asks[1],
             mid2_b |-> book_b.bids[1] + book_b.asks[1]]

(***************************************************************************)
(* determine_trading_direction on doubled mids: price_diff > 75 is         *)
(* |mid2_a - mid2_b| > 150.                                                *)
(***************************************************************************)
NoDirection == [side_a |-> "none", side_b |-> "none", strategy_type |-> "none"]

determine_trading_direction_inclusive(mid2_a, mid2_b) ==
    LET price_diff2 == Abs(mid2_a - mid2_b)
    IN IF price_diff2 >= 2 * spread_threshold_open
       THEN (IF mid2_a > mid2_b
             THEN [side_a |-> "sell", side_b |-> "buy", strategy_type |-> "convergence"]
             ELSE [side_a |-> "buy", side_b |-> "sell", strategy_type |-> "convergence"])
       ELSE IF price_diff2 < 2 * spread_threshold_reverse
       THEN (IF mid2_a > mid2_b
             THEN [side_a |-> "buy", side_b |-> "sell", strategy_type |-> "divergence"]
             ELSE [side_a |-> "sell", side_b |-> "buy", strategy_type |-> "divergence"])
       ELSE NoDirection

determine_trading_direction(mid2_a, mid2_b) ==
    LET price_diff2 == Abs(mid2_a - mid2_b)
    IN IF price_diff2 > 2 * spread_threshold_open
       THEN (IF mid2_a > mid2_b
             THEN [side_a |-> "sell", side_b |-> "buy", strategy_type |-> "convergence"]
             ELSE [side_a |-> "buy", side_b |-> "sell", strategy_type |-> "convergence"])
       ELSE IF price_diff2 < 2 * spread_threshold_reverse
       THEN (IF mid2_a > mid2_b
             THEN [side_a |-> "buy", side_b |-> "sell", strategy_type |-> "divergence"]
             ELSE [side_a |-> "sell", side_b |-> "buy", strategy_type |-> "divergence"])
       ELSE NoDirection

\* _is_order_filled on the status string of a status reply (NoReply: None)
NoReply == "noreply"
is_order_filled(reply) == reply \in {"filled", "closed", "executed"}

\* the maker price execute_arbitrage / _add_position take from a book
MakerPrice(book, side) == IF side = "buy" THEN book.bids[1] ELSE book.asks[1]


(***************************************************************************)
(* Venue side of an order the code holds a handle to.                      *)
(*   "none"       no order (placement failed)                              *)
(*   "open"       resting on the venue                                     *)
(*   "filled"     filled                                                   *)
(*   "cancelled"  cancelled                                                *)
(* An open order fills, if it does, when the venue is next asked about it  *)
(* (a status poll or a cancel request).  An order the code no longer polls *)
(* is recorded in live_orders if it still rests on the venue.              *)
(***************************************************************************)
OrderStates == {"none", "open", "filled", "cancelled"}

\* what get_order_status can answer for an order in a given state
PollReplies(state) ==
    CASE state = "open" -> {"open", "filled", NoReply}
      [] state = "filled" -> {"filled", NoReply}
      [] state = "cancelled" -> {"cancelled", NoReply}
      [] OTHER -> {NoReply}

\* the order's state once that reply has been given
AfterPoll(state, reply) == IF state = "open" /\ reply = "filled" THEN "filled" ELSE state

\* what a cancel request can leave behind: cancelled, filled meanwhile, or
\* still resting (the request failed); the callers ignore cancel's result
CancelOutcomes(state) ==
    IF state = "open" THEN {"cancelled", "filled", "open"} ELSE {state}

\* what place_order can answer: an order with an id, a falsy result (or an
\* exception), or a result without an order id
PlaceResults == {"ok", "none", "noid"}

\* what _place_market_order can come to: as PlaceResults, or "nobook" when
\* its book cannot be read and place_order is not called
HedgePlaceResults == PlaceResults \cup {"nobook"}

\* the values the price lookups and get_spread can return on the venues' books
LimitPrices(side) == { get_smart_order_price(book, side, "limit") : book \in Books }
MarketPrices(side) == { get_smart_order_price(book, side, "market") : book \in Books }
\* get_spread is also asked while the venues quote a third price level
SpreadBooks == Books \cup { MkBook(165, 167) }
Spreads == { get_spread(book_a, book_b) : book_a \in SpreadBooks, book_b \in SpreadBooks }

\* what _check_position_status reads from an answer of get_spread: whether a
\* mid price is 0, and the absolute difference of the (doubled) mids
PriceDiff(s) == [failed |-> s.mid2_a = 0 \/ s.mid2_b = 0,
                 diff2 |-> Abs(s.mid2_a - s.mid2_b)]
PriceDiffs == { PriceDiff(s) : s \in Spreads }

\* fills counted per venue: 0, 1, or 2 for two or more
ZeroQty == [v \in Venues |-> 0]
Inc(q, v) == [q EXCEPT ![v] = IF @ < 2 THEN @ + 1 ELSE @]
IncIf(cond, q, v) == IF cond THEN Inc(q, v) ELSE q

NoStrategy == [exists |-> FALSE, exchange_a |-> NoExchange, exchange_b |-> NoExchange,
               monitoring_active |-> FALSE, has_added_position |-> FALSE,
               positions |-> 0]

NoPosition == [exists |-> FALSE, amount |-> 0, side_a |-> "none", side_b |-> "none",
               entry_price_a |-> NoPrice, entry_price_b |-> NoPrice,
               entry_spread |-> 0, strategy_type |-> "none", status |-> "none",
               actual_price_a |-> Unset, actual_price_b |-> Unset]

VARIABLES
    caller,         \* "cli": the execute command; "api": a direct caller of the strategy
    real_trade,     \* --real-trade / the real_trade argument
    loop_count,     \* --loop-count
    account_a,      \* --account-a
    account_b,      \* --account-b
    pc,             \* position of the task
    current_loop,   \* execute._execute: current_loop
    loop_stats,     \* execute._execute: loop_stats
    strategy,       \* the UnifiedArbitrageStrategy of the current cycle
    position,       \* the ArbitragePosition of the current strategy
    dir,            \* execute_arbitrage: side_a, side_b, strategy_type
    phase,          \* which protocol runs: "open", "add" or "close"
    leg,            \* the leg being placed / compensated
    chase_count,    \* _place_limit_order_with_chase: chase_count
    order_a,        \* state of the order behind order_id_a
    order_b,        \* state of the order behind order_id_b
    add_spread,     \* _add_position: add_spread (doubled)
    mon_result,     \* what the last monitor returned: "none", "true", "false", "nothing"
    exec_result,    \* what execute_arbitrage returned: "none", "true", "false"
    hold_elapsed,   \* the position is older than min_hold_time
    filled_qty,     \* venue: orders of the current protocol that filled
    live_orders,    \* an order of the current protocol is left resting, unpolled
    hist,           \* history of the run, for the properties
    call,           \* CallSpec: one call of a function, its arguments and its result
    tasks           \* MonitorSpec: the tasks that call start_monitoring

inputVars == <<caller, real_trade, loop_count, account_a, account_b>>
cliVars == <<current_loop, loop_stats>>
protocolLocals == <<leg, chase_count, order_a, order_b, mon_result>>
venueVars == <<filled_qty, live_orders>>
vars == <<caller, real_trade, loop_count, account_a, account_b, pc, current_loop,
          loop_stats, strategy, position, dir, phase, leg, chase_count, order_a,
          order_b, add_spread, mon_result, exec_result, hold_elapsed, filled_qty,
          live_orders, hist, call, tasks>>

\* the variables of CallSpec and MonitorSpec, which the run of the execute
\* command (Spec) leaves alone
otherSpecVars == <<call, tasks>>
NoCall == [fn |-> "none", returned |-> FALSE]
NoTasks == <<>>

(***************************************************************************)
(* History of the run.                                                     *)
(*   strategies_created   strategies created so far in this run            *)
(*   exhausted_cycle      a cycle of this run ended with the opening's     *)
(*                        compensation retries exhausted                   *)
(* of the current cycle (cyc):                                             *)
(*   exhausted            the opening's compensation retries ran out       *)
(*   placed_after         place_order was called after that                *)
(*   verify_result        what verify_no_open_positions returned           *)
(*   verify_unanswered    one of its queries raised                        *)
(*   verify_open          one of its queries reported a position or order  *)
(* of the current protocol (proto), kept until the step after it:          *)
(*   decided              an entry tick ran get_spread and                 *)
(*                        determine_trading_direction                      *)
(*   failed_tick          get_spread failed on the last entry tick (it     *)
(*                        returned all zeros)                              *)
(*   placed               place_order was called                           *)
(*   deciding_tick        what the monitor's deciding tick saw: "both"     *)
(*                        maker orders filled, "one" of them, or "timeout" *)
(*   cancel_req           the monitor asked to cancel a maker order        *)
(*   hedge_place_result   what submitting the compensating order came to   *)
(*                        ("none_yet": not attempted)                      *)
(*   waits                waits for the compensating order that timed out  *)
(*   exhausted            the compensation retries ran out                 *)
(*   wait_cancels         cancel requests of the wait-with-retry           *)
(*   resubmits            replacement orders it submitted                  *)
(*   hedged_leg           the leg whose compensating order filled, in an   *)
(*                        opening                                          *)
(*   fill_price           the price the venue executed that order at       *)
(***************************************************************************)
Proto0 == [decided |-> FALSE, failed_tick |-> FALSE, placed |-> FALSE,
           deciding_tick |-> "none", cancel_req |-> FALSE,
           hedge_place_result |-> "none_yet", waits |-> 0, exhausted |-> FALSE,
           wait_cancels |-> 0, resubmits |-> 0,
           hedged_leg |-> "none", fill_price |-> NoPrice]

Cyc0 == [exhausted |-> FALSE, placed_after |-> FALSE,
         verify_result |-> "none", verify_unanswered |-> FALSE,
         verify_open |-> FALSE]

Hist0 == [strategies_created |-> 0, exhausted_cycle |-> FALSE,
          cyc |-> Cyc0, proto |-> Proto0]

\* place_order is called
NotePlace(h) == [h EXCEPT !.proto.placed = TRUE,
                          !.cyc.placed_after = @ \/ h.cyc.exhausted]

\* the loop counts given on the command line: 0 (loop until interrupted) and
\* the default 1; a larger count goes on after a cycle as 0 does until it is
\* reached
LoopCounts == {0, 1}

Init ==
    /\ caller \in {"cli", "api"}
    /\ real_trade \in BOOLEAN
    /\ loop_count \in LoopCounts
    /\ caller = "api" => loop_count = 1
    /\ \E pair \in InputPairs : account_a = pair[1] /\ account_b = pair[2]
    /\ pc = "start"
    /\ current_loop = 0
    /\ loop_stats = [success |-> 0, failed |-> 0]
    /\ strategy = NoStrategy
    /\ position = NoPosition
    /\ dir = NoDirection
    /\ phase = "open"
    /\ leg = "a"
    /\ chase_count = 0
    /\ order_a = "none"
    /\ order_b = "none"
    /\ add_spread = 0
    /\ mon_result = "none"
    /\ exec_result = "none"
    /\ hold_elapsed = FALSE
    /\ filled_qty = ZeroQty
    /\ live_orders = FALSE
    /\ hist = Hist0
    /\ call = NoCall
    /\ tasks = NoTasks

\* a fresh UnifiedArbitrageStrategy (__init__) from create_arbitrage_strategy
NewStrategy(id_a, id_b) ==
    [exists |-> TRUE, exchange_a |-> Title(Accounts(id_a)),
     exchange_b |-> Title(Accounts(id_b)), monitoring_active |-> FALSE,
     has_added_position |-> FALSE, positions |-> 0]

\* the per-strategy state of the model, as a new strategy instance finds it
FreshStrategyState ==
    /\ position' = NoPosition
    /\ dir' = NoDirection
    /\ phase' = "open"
    /\ leg' = "a"
    /\ chase_count' = 0
    /\ order_a' = "none"
    /\ order_b' = "none"
    /\ add_spread' = 0
    /\ mon_result' = "none"
    /\ exec_result' = "none"
    /\ hold_elapsed' = FALSE
    /\ filled_qty' = ZeroQty
    /\ live_orders' = FALSE

strategyLocals == <<position, dir, phase, protocolLocals, add_spread,
                    exec_result, hold_elapsed, filled_qty, live_orders>>

(***************************************************************************)
(* execute._execute, lines 52-82: the dry-run return, then the account     *)
(* validation; an exception of validate_accounts ends the command.         *)
(***************************************************************************)
CliStart ==
    /\ pc = "start" /\ caller = "cli"
    /\ IF ~real_trade
       THEN pc' = "cli_done"
       ELSE IF validate_accounts(account_a, account_b).ok
            THEN pc' = "cli_loop"
            ELSE pc' = "cli_done"
    /\ UNCHANGED <<inputVars, otherSpecVars, cliVars, strategy, strategyLocals, hist>>

(***************************************************************************)
(* execute._execute, lines 84-107: the head of one cycle: a new strategy,  *)
(* then the call of execute_arbitrage.                                     *)
(***************************************************************************)
CliCycleBegin ==
    /\ pc = "cli_loop"
    /\ current_loop <= MaxCycles
    /\ current_loop' = current_loop + 1
    /\ strategy' = NewStrategy(account_a, account_b)
    /\ FreshStrategyState
    /\ hist' = [hist EXCEPT !.strategies_created = @ + 1, !.cyc = Cyc0,
                            !.proto = Proto0]
    /\ pc' = "entry_loop"
    /\ UNCHANGED <<inputVars, otherSpecVars, loop_stats>>

(***************************************************************************)
(* A direct caller of the strategy: validate_accounts,                     *)
(* create_arbitrage_strategy, then execute_arbitrage(symbol, amount,       *)
(* real_trade) with either value of real_trade.                            *)
(***************************************************************************)
ApiStart ==
    /\ pc = "start" /\ caller = "api"
    /\ IF validate_accounts(account_a, account_b).ok
       THEN /\ strategy' = NewStrategy(account_a, account_b)
            /\ hist' = [hist EXCEPT !.strategies_created = @ + 1]
            /\ pc' = "entry_loop"
       ELSE /\ pc' = "api_done"
            /\ UNCHANGED <<strategy, hist>>
    /\ UNCHANGED <<inputVars, otherSpecVars, cliVars, strategyLocals>>

\* the real_trade argument execute_arbitrage is called with
ArgRealTrade == IF caller = "cli" THEN TRUE ELSE real_trade

(***************************************************************************)
(* execute_arbitrage, lines 294-308: one tick of the entry loop.           *)
(***************************************************************************)
ExecEntryTick ==
    /\ pc = "entry_loop"
    /\ current_loop <= MaxCycles
    /\ \E s \in Spreads :
         LET d == determine_trading_direction(s.mid2_a, s.mid2_b)
         IN /\ dir' = d
            /\ hist' = [hist EXCEPT !.proto.decided = TRUE,
                                    !.proto.failed_tick = (s = SpreadFailed)]
            /\ pc' = IF d = NoDirection THEN "entry_loop" ELSE "select_prices"
    /\ UNCHANGED <<inputVars, otherSpecVars, cliVars, strategy, position, phase, protocolLocals,
                   add_spread, exec_result, hold_elapsed, venueVars>>

\* the ArbitragePosition execute_arbitrage creates (lines 339-352)
NewPosition(d, price_a, price_b) ==
    [exists |-> TRUE, amount |-> 1, side_a |-> d.side_a, side_b |-> d.side_b,
     entry_price_a |-> price_a, entry_price_b |-> price_b,
     entry_spread |-> 2 * Abs(price_a - price_b),
     strategy_type |-> d.strategy_type, status |-> "pending",
     actual_price_a |-> Unset, actual_price_b |-> Unset]

(***************************************************************************)
(* execute_arbitrage, lines 316-354 and 393-399: the two books are fetched *)
(* again, the maker prices chosen and the position created; a dry run      *)
(* returns True here; an unreadable book raises and the call returns False.*)
(***************************************************************************)
ExecSelectPrices ==
    /\ pc = "select_prices"
    /\ \E book_a \in Books, book_b \in Books :
         IF ~Readable(book_a) \/ ~Readable(book_b)
         THEN /\ exec_result' = "false"
              /\ pc' = "exec_done"
              /\ UNCHANGED position
         ELSE /\ position' = NewPosition(dir, MakerPrice(book_a, dir.side_a),
                                         MakerPrice(book_b, dir.side_b))
              /\ IF ArgRealTrade
                 THEN pc' = "place" /\ exec_result' = exec_result
                 ELSE pc' = "exec_done" /\ exec_result' = "true"
    /\ UNCHANGED <<inputVars, otherSpecVars, cliVars, strategy, dir, phase, protocolLocals,
                   add_spread, hold_elapsed, venueVars, hist>>

\* the side of the order protocol `ph` submits on leg l: the entry side when
\* opening or adding, the opposite side when closing (_close_position)
Opposite(side) == IF side = "buy" THEN "sell" ELSE "buy"
EntrySide(l) == IF l = "a" THEN position.side_a ELSE position.side_b
OrderSide(ph, l) == IF ph = "close" THEN Opposite(EntrySide(l)) ELSE EntrySide(l)

\* the handles of a protocol are dropped: an order still resting stays on
\* the venue and is never polled again
Dropped(live, oa, ob) == live \/ oa = "open" \/ ob = "open"

(***************************************************************************)
(* What execute_arbitrage does with the monitor's result, lines 383-392.   *)
(***************************************************************************)
ExecOutcomeIgnoringResult(result) == "true"
ExecOutcome(result) == IF result = "true" THEN "true" ELSE "false"

\* the quantity-weighted entry spread of _add_position (line 1089), on
\* doubled spreads
weighted_spread(old_spread, old_amount, new_spread, amount) ==
    (old_spread * old_amount + new_spread * amount) \div (old_amount + amount)

(***************************************************************************)
(* The order protocol of `phase` is over and its caller goes on.           *)
(*   open   execute_arbitrage, lines 365-368 and 383-399: a missing order  *)
(*          raises and False is returned; the monitor's result decides     *)
(*          whether the position joins self.positions as "opened".         *)
(*   add    _add_position, lines 1049-1051 and 1080-1098, then             *)
(*          _check_position_status, lines 969-971: a successful add-on     *)
(*          adds the amount and stores the weighted entry spread; the flag *)
(*          has_added_position is set whatever the result.                 *)
(*   close  _close_position, lines 1117-1119 and 1129: the closing         *)
(*          monitor's result is not used.                                  *)
(* `result` is what the monitor returned ("none": it was not entered) and  *)
(* `pos` the position as the monitor leaves it.                            *)
(***************************************************************************)
ProtocolReturns(result, pos, fq, lv, h) ==
    /\ mon_result' = result
    /\ filled_qty' = fq
    /\ live_orders' = lv
    /\ hist' = h
    /\ leg' = "a" /\ chase_count' = 0
    /\ order_a' = "none" /\ order_b' = "none"
    /\ add_spread' = 0
    /\ CASE phase = "open" ->
              /\ exec_result' = ExecOutcome(result)
              /\ IF exec_result' = "true"
                 THEN /\ strategy' = [strategy EXCEPT !.positions = @ + 1]
                      /\ position' = [pos EXCEPT !.status = "opened"]
                 ELSE /\ strategy' = strategy
                      /\ position' = pos
              /\ pc' = "exec_done"
         [] phase = "add" ->
              /\ position' =
                   IF result = "true"
                   THEN [pos EXCEPT
                           !.entry_spread = weighted_spread(pos.entry_spread, pos.amount,
                                                            add_spread, pos.amount),
                           !.amount = pos.amount + pos.amount]
                   ELSE pos
              /\ strategy' = [strategy EXCEPT !.has_added_position = TRUE]
              /\ pc' = "monitoring"
              /\ UNCHANGED exec_result
         [] OTHER ->
              /\ position' = pos
              /\ pc' = "monitoring"
              /\ UNCHANGED <<strategy, exec_result>>

(***************************************************************************)
(* _place_limit_order_with_chase returns `state` for leg `leg`.  Leg a is  *)
(* placed to the end before leg b is started (lines 357-362, 1046-1047,    *)
(* 1114-1115); after leg b the caller checks both results and enters the   *)
(* monitor, or gives the protocol up with whatever order it has placed     *)
(* left on the venue.                                                      *)
(***************************************************************************)
ChaseReturn(state, fq, h) ==
    IF leg = "a"
    THEN /\ order_a' = state
         /\ leg' = "b" /\ chase_count' = 0
         /\ filled_qty' = fq
         /\ hist' = h
         /\ pc' = "place"
         /\ UNCHANGED <<order_b, live_orders, strategy, position, add_spread,
                        mon_result, exec_result>>
    ELSE IF order_a = "none" \/ state = "none"
    THEN ProtocolReturns("none", position, fq, Dropped(live_orders, order_a, state), h)
    ELSE /\ order_b' = state
         /\ leg' = "a" /\ chase_count' = 0
         /\ filled_qty' = fq
         /\ hist' = h
         /\ pc' = "monitor"
         /\ UNCHANGED <<order_a, live_orders, strategy, position, add_spread,
                        mon_result, exec_result>>

\* the prices the second lookup of a chase iteration can return: the best
\* price has moved at most MaxPriceMoves times since the placement began
SecondLookups(side, current_price) ==
    IF chase_count < MaxPriceMoves THEN LimitPrices(side)
    ELSE {current_price, NoPrice}

(***************************************************************************)
(* _place_limit_order_with_chase, lines 416-471: one iteration of the      *)
(* chase loop for leg `leg`.  It returns the order, or None when the price *)
(* lookup or the placement fails; a superseded order is asked to cancel.   *)
(***************************************************************************)
ChaseStep ==
    /\ pc = "place"
    /\ LET side == OrderSide(phase, leg)
       IN \E current_price \in LimitPrices(side) :
            IF current_price = NoPrice
            THEN ChaseReturn("none", filled_qty, hist)
            ELSE \E res \in PlaceResults :
                   IF res # "ok"
                   THEN ChaseReturn("none", filled_qty, NotePlace(hist))
                   ELSE \E reply \in PollReplies("open") :
                          IF is_order_filled(reply)
                          THEN ChaseReturn("filled", Inc(filled_qty, leg), NotePlace(hist))
                          ELSE \E new_price \in SecondLookups(side, current_price) :
                                 IF new_price # NoPrice /\ new_price # current_price
                                    /\ chase_count < chase_max_retries
                                 THEN \E after \in CancelOutcomes("open") :
                                        /\ hist' = NotePlace(hist)
                                        /\ filled_qty' = IncIf(after = "filled",
                                                               filled_qty, leg)
                                        /\ live_orders' = (live_orders \/ after = "open")
                                        /\ chase_count' = chase_count + 1
                                        /\ pc' = "place"
                                        /\ UNCHANGED <<leg, order_a, order_b, strategy,
                                                       position, add_spread, mon_result,
                                                       exec_result>>
                                 ELSE ChaseReturn("open", filled_qty, NotePlace(hist))
    /\ UNCHANGED <<inputVars, otherSpecVars, cliVars, dir, phase, hold_elapsed>>

(***************************************************************************)
(* _update_actual_entry_prices, lines 678-701: the entry prices and the    *)
(* entry spread from the stored fill prices.  A stored price of None       *)
(* raises while the prices are printed (line 690/691), before anything is  *)
(* assigned; the exception is swallowed.                                   *)
(***************************************************************************)
update_actual_entry_prices(pos) ==
    LET actual_price_a == IF pos.actual_price_a = Unset THEN pos.entry_price_a
                          ELSE pos.actual_price_a
        actual_price_b == IF pos.actual_price_b = Unset THEN pos.entry_price_b
                          ELSE pos.actual_price_b
    IN IF actual_price_a = NoPrice \/ actual_price_b = NoPrice
       THEN pos
       ELSE [pos EXCEPT !.entry_price_a = actual_price_a,
                        !.entry_price_b = actual_price_b,
                        !.entry_spread = 2 * Abs(actual_price_a - actual_price_b)]

\* the position with the fill price of the compensated leg l stored
WithActualPrice(pos, l, price) ==
    IF l = "a" THEN [pos EXCEPT !.actual_price_a = price]
    ELSE [pos EXCEPT !.actual_price_b = price]

(***************************************************************************)
(* What the monitor returns when its loop is left by `break` although the  *)
(* leg was not compensated (the compensating order was not placed, or came *)
(* back without an id).  _monitor_and_hedge, lines 632/659 and 674-676:    *)
(* the prices are updated and True is returned.  _monitor_close_and_hedge, *)
(* lines 1176/1200 and 1214: nothing is returned, the status is kept.      *)
(***************************************************************************)
BreakResult(ph) == IF ph = "close" THEN "nothing" ELSE "true"

(***************************************************************************)
(* What the closing monitor does to the position when it leaves its loop   *)
(* with the locals filled_a, filled_b (lines 1214-1217).                   *)
(***************************************************************************)
CloseOutcomeAlways(pos, filled_a, filled_b) == [pos EXCEPT !.status = "closed"]
CloseOutcome(pos, filled_a, filled_b) ==
    IF filled_a /\ filled_b THEN [pos EXCEPT !.status = "closed"] ELSE pos

(***************************************************************************)
(* The position as the monitor of `ph` leaves it when its loop ends with   *)
(* the leg seen filled first and `compensated`: whether the wait for the   *)
(* other leg l's compensating order, looked up at `market_price`, ended    *)
(* with a fill (lines 625-631 and 674-676; 1170-1175 and 1214-1217).       *)
(***************************************************************************)
MonitorLeaves(ph, pos, l, compensated, market_price) ==
    LET filled_a == (l = "b") \/ compensated
        filled_b == (l = "a") \/ compensated
    IN CASE ph = "open" ->
              update_actual_entry_prices(
                  IF compensated THEN WithActualPrice(pos, l, market_price) ELSE pos)
         [] ph = "close" -> CloseOutcome(pos, filled_a, filled_b)
         [] OTHER -> pos

(***************************************************************************)
(* The poll loop of _monitor_and_hedge (lines 594-672) or of               *)
(* _monitor_close_and_hedge (lines 1144-1212), up to its deciding tick:    *)
(* the first tick on which an order reports filled, or the timeout after   *)
(* 600 ticks on which none did.  On the deciding tick both orders are      *)
(* polled; the first branch whose order reports filled cancels the other   *)
(* leg's order, looks up the taker price and submits a compensating order  *)
(* through _place_market_order (lines 746-800).                            *)
(***************************************************************************)
MonitorTick ==
    /\ pc = "monitor"
    /\ \E ra \in PollReplies(order_a), rb \in PollReplies(order_b) :
         LET oa == AfterPoll(order_a, ra)
             ob == AfterPoll(order_b, rb)
             fq1 == IncIf(oa # order_a, filled_qty, "a")
             fq2 == IncIf(ob # order_b, fq1, "b")
             seen_a == is_order_filled(ra)
             seen_b == is_order_filled(rb)
         IN IF seen_a \/ seen_b
            THEN LET l == IF seen_a THEN "b" ELSE "a"
                     ol == IF l = "a" THEN oa ELSE ob
                 IN \E after \in CancelOutcomes(ol), hres \in HedgePlaceResults :
                      LET fq3 == IncIf(ol = "open" /\ after = "filled", fq2, l)
                          lv == live_orders \/ after = "open"
                          h1 == [hist EXCEPT
                                   !.proto.deciding_tick =
                                       IF seen_a /\ seen_b THEN "both" ELSE "one",
                                   !.proto.cancel_req = TRUE,
                                   !.proto.hedge_place_result = hres]
                          h2 == IF hres = "nobook" THEN h1 ELSE NotePlace(h1)
                      IN IF hres = "ok"
                         THEN /\ leg' = l
                              /\ filled_qty' = fq3
                              /\ live_orders' = lv
                              /\ hist' = h2
                              /\ order_a' = "none" /\ order_b' = "none"
                              /\ pc' = "wait"
                              /\ UNCHANGED <<chase_count, strategy, position,
                                             add_spread, mon_result, exec_result>>
                         ELSE ProtocolReturns(BreakResult(phase),
                                              MonitorLeaves(phase, position, l,
                                                            FALSE, NoPrice),
                                              fq3, lv, h2)
            ELSE ProtocolReturns("false", position, fq2,
                                 Dropped(live_orders, oa, ob),
                                 [hist EXCEPT !.proto.deciding_tick = "timeout"])
    /\ UNCHANGED <<inputVars, otherSpecVars, cliVars, dir, phase, hold_elapsed>>

(***************************************************************************)
(* What _wait_for_order_fill_with_retry does when wait number `r`          *)
(* (0-based) timed out: "retry" (cancel, re-price, resubmit) while         *)
(* r < max_retries - 1, else "give_up" (lines 854, 887-889).               *)
(***************************************************************************)
AfterTimeoutOnceMore(r) == IF r < hedge_max_retries THEN "retry" ELSE "give_up"
AfterTimeout(r) == IF r < hedge_max_retries - 1 THEN "retry" ELSE "give_up"

(***************************************************************************)
(* _wait_for_order_fill_with_retry, lines 838-893, from wait number `r`    *)
(* on, for the compensating order of leg l: the ways the call can end.     *)
(* Each wait sees the current order filled, or times out (30 s of polls);  *)
(* after a timeout the order is asked to cancel and a new one is submitted *)
(* through _place_order_internal, except after the last wait.  An outcome  *)
(* is the result, the fills, whether an order is left resting, and the     *)
(* history.                                                                *)
(***************************************************************************)
RECURSIVE wait_for_order_fill_with_retry(_, _, _, _, _, _)
wait_for_order_fill_with_retry(r, l, ph, fq, lv, h) ==
    LET timed_out == [h EXCEPT !.proto.waits = r + 1]
    IN { [ok |-> TRUE, fq |-> Inc(fq, l), lv |-> lv, h |-> h] }
       \cup
       IF AfterTimeout(r) = "retry"
       THEN UNION {
              LET fq2 == IncIf(after = "filled", fq, l)
                  lv2 == lv \/ after = "open"
                  cancelled == [timed_out EXCEPT !.proto.wait_cancels = @ + 1]
                  resubmitted == NotePlace([cancelled EXCEPT !.proto.resubmits = @ + 1])
              IN IF hres = "ok"
                 THEN wait_for_order_fill_with_retry(r + 1, l, ph, fq2, lv2, resubmitted)
                 ELSE { [ok |-> FALSE, fq |-> fq2, lv |-> lv2,
                         h |-> IF hres = "nobook" THEN cancelled ELSE resubmitted] }
              : after \in CancelOutcomes("open"), hres \in HedgePlaceResults }
       ELSE { [ok |-> FALSE, fq |-> fq, lv |-> TRUE,
               h |-> [timed_out EXCEPT !.proto.exhausted = TRUE,
                                       !.cyc.exhausted = @ \/ (ph = "open")]] }

(***************************************************************************)
(* The monitor waits for its compensating order (lines 622-631, 649-658;   *)
(* 1167-1175, 1191-1199) and returns: True after a fill, with the taker    *)
(* price of line 614/641 stored as the leg's fill price; False otherwise.  *)
(* The venue executes the order at the best opposite price of its book at  *)
(* that time (FillPrices); the code does not ask for it.                   *)
(***************************************************************************)
FillPrices(side) == MarketPrices(side) \ {NoPrice}

WaitForFill ==
    /\ pc = "wait"
    /\ \E out \in wait_for_order_fill_with_retry(0, leg, phase, filled_qty,
                                                 live_orders, hist) :
         IF out.ok
         THEN \E market_price \in MarketPrices(OrderSide(phase, leg)),
                 fill_price \in IF phase = "open"
                                THEN FillPrices(OrderSide(phase, leg))
                                ELSE {NoPrice} :
                ProtocolReturns("true",
                                MonitorLeaves(phase, position, leg, TRUE, market_price),
                                out.fq, out.lv,
                                IF phase = "open"
                                THEN [out.h EXCEPT !.proto.hedged_leg = leg,
                                                   !.proto.fill_price = fill_price]
                                ELSE out.h)
         ELSE ProtocolReturns("false", position, out.fq, out.lv, out.h)
    /\ UNCHANGED <<inputVars, otherSpecVars, cliVars, dir, phase, hold_elapsed>>

(***************************************************************************)
(* Time a monitor run has taken at least, in ticks of 0.1 s, when it       *)
(* returns with history h: the deciding tick of its poll loop (lines       *)
(* 594-597, one sleep of 0.1 s) and max_wait seconds for each wait for the *)
(* compensating order that timed out (lines 840-850).                      *)
(***************************************************************************)
MonitorTicksAtLeast(h) == 1 + 10 * max_wait * h.proto.waits

(***************************************************************************)
(* Time that passes at least, in ticks of 0.1 s, between a state of the    *)
(* protocol of `ph` in which leg a's order has been placed and the first   *)
(* status poll of its monitor: when leg b is still to be placed (`where`   *)
(* is "place"), the sleep before its fast-fill check (line 438); for an    *)
(* opening the sleep of _check_initial_order_status (lines 378, 533); and  *)
(* the monitor's sleep before its first poll (line 596 / 1146).            *)
(***************************************************************************)
TicksBeforeFirstPoll(ph, where) ==
    (IF where = "place" THEN 1 ELSE 0) + (IF ph = "open" THEN 5 ELSE 0) + 1

\* stop_monitoring (lines 1223-1226), also the whole effect of cleanup
\* (lines 1274-1277) on the strategy
stop_monitoring_toggling(st) == [st EXCEPT !.monitoring_active = ~@]
stop_monitoring(st) == [st EXCEPT !.monitoring_active = FALSE]

\* execute._execute, lines 138-146: after a cycle, stop or go round again
NextCyclePc(count, current) ==
    IF count > 0 /\ current >= count THEN "cli_done" ELSE "cli_loop"

(***************************************************************************)
(* execute._execute, lines 107-114 and 127-146: the result of              *)
(* execute_arbitrage.  On success start_monitoring is entered (lines       *)
(* 897-902); on failure the cycle is counted as failed, the strategy is    *)
(* cleaned up and the loop goes on or ends.                                *)
(***************************************************************************)
CliAfterExec ==
    /\ pc = "exec_done" /\ caller = "cli"
    /\ IF exec_result = "true"
       THEN /\ strategy' = [strategy EXCEPT !.monitoring_active = TRUE]
            /\ pc' = "monitoring"
            /\ UNCHANGED <<loop_stats, hist>>
       ELSE /\ loop_stats' = [loop_stats EXCEPT !.failed = @ + 1]
            /\ strategy' = stop_monitoring(stop_monitoring(strategy))
            /\ hist' = [hist EXCEPT !.exhausted_cycle = @ \/ hist.cyc.exhausted]
            /\ pc' = NextCyclePc(loop_count, current_loop)
    /\ UNCHANGED <<inputVars, otherSpecVars, current_loop, strategyLocals>>

\* the direct caller has its answer
ApiAfterExec ==
    /\ pc = "exec_done" /\ caller = "api"
    /\ pc' = "api_done"
    /\ UNCHANGED <<inputVars, otherSpecVars, cliVars, strategy, strategyLocals, hist>>

(***************************************************************************)
(* The exit policy of _check_position_status on doubled mids and the       *)
(* doubled entry spread: current_price_diff > entry_spread * 1.2 is        *)
(* 10 * diff2 > 12 * entry_spread, and so on (lines 954-966, 989-1005).    *)
(***************************************************************************)
should_add(pos, diff2) ==
    \/ pos.strategy_type = "convergence" /\ 10 * diff2 > 12 * pos.entry_spread
    \/ pos.strategy_type = "divergence" /\ 10 * diff2 < 8 * pos.entry_spread

should_close_inclusive(pos, diff2) ==
    \/ pos.strategy_type = "convergence" /\ 10 * diff2 <= 9 * pos.entry_spread
    \/ pos.strategy_type = "divergence" /\ 10 * diff2 >= 11 * pos.entry_spread

should_close(pos, diff2) ==
    \/ pos.strategy_type = "convergence" /\ 10 * diff2 < 9 * pos.entry_spread
    \/ pos.strategy_type = "divergence" /\ 10 * diff2 > 11 * pos.entry_spread

\* an order protocol begins with the placement of leg a
ProtocolBegins(ph) ==
    /\ phase' = ph /\ leg' = "a" /\ chase_count' = 0
    /\ pc' = "place"

(***************************************************************************)
(* _add_position, lines 1023-1043: the two books are fetched and the       *)
(* add-on spread (doubled) is taken from the maker prices; without two     *)
(* readable books the add-on is given up.                                  *)
(***************************************************************************)
AddSpreads(pos) ==
    { IF ~Readable(book_a) \/ ~Readable(book_b)
      THEN [ok |-> FALSE, add_spread |-> 0]
      ELSE [ok |-> TRUE,
            add_spread |-> 2 * Abs(MakerPrice(book_a, pos.side_a)
                                   - MakerPrice(book_b, pos.side_b))]
      : book_a \in Books, book_b \in Books }

(***************************************************************************)
(* _check_position_status past the hold time, lines 943-1008: what the     *)
(* call can come to on the venues' answers.                                *)
(*   "add"         the add-on's orders are to be placed (with add_spread)  *)
(*   "add_failed"  _add_position gave up on its books                      *)
(*   "close"       the closing orders are to be placed                     *)
(*   "none"        nothing to do on this tick                              *)
(* The add-on check has no test for a failed get_spread; the closing check *)
(* skips the tick when a mid price is 0 (line 977).  PositionCheck is the  *)
(* call on given answers: q1 of the add-on check's get_spread, `add` of    *)
(* _add_position's books, q2 of the closing check's get_spread.            *)
(***************************************************************************)
PositionCheck(st, pos, q1, add, q2) ==
    IF ~st.has_added_position /\ should_add(pos, q1.diff2)
    THEN [do |-> IF add.ok THEN "add" ELSE "add_failed", add_spread |-> add.add_spread]
    ELSE [do |-> IF ~q2.failed /\ should_close(pos, q2.diff2) THEN "close" ELSE "none",
          add_spread |-> 0]

check_position_status(st, pos) ==
    { PositionCheck(st, pos, q1, add, q2) :
        q1 \in PriceDiffs, add \in AddSpreads(pos), q2 \in PriceDiffs }

(***************************************************************************)
(* One iteration of start_monitoring (lines 904-926) with the call of      *)
(* _check_position_status (lines 928-1011) for the strategy's position,    *)
(* up to the first order placement of an add-on (_add_position, lines      *)
(* 1013-1045) or of a closing (_close_position, lines 1103-1113).  The     *)
(* counts and the history of the protocol before are over.                 *)
(***************************************************************************)
MonitoringTick ==
    /\ pc = "monitoring"
    /\ IF ~strategy.monitoring_active
       THEN /\ pc' = "verify"
            /\ UNCHANGED <<strategy, phase, leg, chase_count, add_spread, hold_elapsed>>
       ELSE IF strategy.positions = 0
       THEN /\ pc' = "monitoring"
            /\ UNCHANGED <<strategy, phase, leg, chase_count, add_spread, hold_elapsed>>
       ELSE IF position.status # "opened"
       THEN /\ strategy' = [strategy EXCEPT !.monitoring_active = FALSE]
            /\ pc' = "verify"
            /\ UNCHANGED <<phase, leg, chase_count, add_spread, hold_elapsed>>
       ELSE \E elapsed \in {hold_elapsed, TRUE} :
              /\ hold_elapsed' = elapsed
              /\ IF ~elapsed
                 THEN /\ pc' = "monitoring"
                      /\ UNCHANGED <<strategy, phase, leg, chase_count, add_spread>>
                 ELSE \E out \in check_position_status(strategy, position) :
                        CASE out.do = "add" ->
                               /\ add_spread' = out.add_spread
                               /\ ProtocolBegins("add")
                               /\ UNCHANGED strategy
                          [] out.do = "add_failed" ->
                               /\ strategy' = [strategy EXCEPT
                                                 !.has_added_position = TRUE]
                               /\ pc' = "monitoring"
                               /\ UNCHANGED <<phase, leg, chase_count, add_spread>>
                          [] out.do = "close" ->
                               /\ ProtocolBegins("close")
                               /\ UNCHANGED <<strategy, add_spread>>
                          [] OTHER ->
                               /\ pc' = "monitoring"
                               /\ UNCHANGED <<strategy, phase, leg, chase_count,
                                              add_spread>>
    /\ filled_qty' = ZeroQty
    /\ live_orders' = FALSE
    /\ mon_result' = "none"
    /\ hist' = [hist EXCEPT !.proto = Proto0]
    /\ UNCHANGED <<inputVars, otherSpecVars, cliVars, position, dir, order_a, order_b, exec_result>>

(***************************************************************************)
(* _check_exchange_clean (lines 1248-1272) on the venue's two answers      *)
(* ("none": nothing open, "open": something open, "error": the query       *)
(* raised), and verify_no_open_positions (lines 1229-1246).                *)
(***************************************************************************)
QueryReplies == {"none", "open", "error"}
check_exchange_clean(positions_reply, orders_reply) ==
    positions_reply # "open" /\ orders_reply # "open"

verify_no_open_positions(pa, oa, pb, ob) ==
    check_exchange_clean(pa, oa) /\ check_exchange_clean(pb, ob)

(***************************************************************************)
(* execute._execute, lines 116-146: after start_monitoring has returned,   *)
(* the verification, the statistics, the cleanup and the loop test.        *)
(***************************************************************************)
CliVerify ==
    /\ pc = "verify"
    /\ \E pa \in QueryReplies, oa \in QueryReplies,
          pb \in QueryReplies, ob \in QueryReplies :
         LET verification_result == verify_no_open_positions(pa, oa, pb, ob)
         IN /\ loop_stats' = IF verification_result
                             THEN [loop_stats EXCEPT !.success = @ + 1]
                             ELSE [loop_stats EXCEPT !.failed = @ + 1]
            /\ hist' = [hist EXCEPT
                          !.cyc.verify_result =
                              IF verification_result THEN "true" ELSE "false",
                          !.cyc.verify_unanswered = ("error" \in {pa, oa, pb, ob}),
                          !.cyc.verify_open = ("open" \in {pa, oa, pb, ob})]
    /\ strategy' = stop_monitoring(stop_monitoring(strategy))
    /\ pc' = NextCyclePc(loop_count, current_loop)
    /\ UNCHANGED <<inputVars, otherSpecVars, current_loop, strategyLocals>>

Next ==
    \/ CliStart
    \/ CliCycleBegin
    \/ ApiStart
    \/ ExecEntryTick
    \/ ExecSelectPrices
    \/ ChaseStep
    \/ MonitorTick
    \/ WaitForFill
    \/ CliAfterExec
    \/ ApiAfterExec
    \/ MonitoringTick
    \/ CliVerify

Spec == Init /\ [][Next]_vars

(***************************************************************************)
(* CallSpec: single calls of functions of the program.  A call is drawn    *)
(* with its arguments and the venues' answers, and the function is applied *)
(* to them; the variables of Spec stay as SpecAtRest leaves them.          *)
(***************************************************************************)
specVars == <<caller, real_trade, loop_count, account_a, account_b, pc, current_loop,
              loop_stats, strategy, position, dir, phase, leg, chase_count, order_a,
              order_b, add_spread, mon_result, exec_result, hold_elapsed, filled_qty,
              live_orders, hist>>

SpecAtRest(st, pos) ==
    /\ caller = "api" /\ real_trade = FALSE /\ loop_count = 1
    /\ account_a = 1 /\ account_b = 2
    /\ pc = "start"
    /\ current_loop = 0
    /\ loop_stats = [success |-> 0, failed |-> 0]
    /\ strategy = st
    /\ position = pos
    /\ dir = NoDirection
    /\ phase = "open"
    /\ leg = "a"
    /\ chase_count = 0
    /\ order_a = "none"
    /\ order_b = "none"
    /\ add_spread = 0
    /\ mon_result = "none"
    /\ exec_result = "none"
    /\ hold_elapsed = FALSE
    /\ filled_qty = ZeroQty
    /\ live_orders = FALSE
    /\ hist = Hist0

\* the books the venues answer the position check's get_spread with
TickBooks == { NoBook, MkBook(100, 102), MkBook(110, 112), MkBook(185, 187),
               MkBook(190, 192), MkBook(210, 212), MkBook(220, 222),
               MkBook(225, 227) }
TickDiffs == { PriceDiff(get_spread(book_a, book_b)) :
                 book_a \in TickBooks, book_b \in TickBooks }

\* the directions determine_trading_direction can return
Directions == { determine_trading_direction(s.mid2_a, s.mid2_b) : s \in Spreads }
                 \ {NoDirection}

\* opened positions past their hold time: entry spreads 100 and 20
OpenedPositions ==
    { [NewPosition(d, 100, price_b) EXCEPT !.status = "opened"] :
        d \in Directions, price_b \in {200, 120} }

CheckCalls ==
    { [fn |-> "check_position_status", returned |-> FALSE,
       has_added_position |-> added, position |-> pos,
       add_check |-> q1, add_books |-> add, close_check |-> q2] :
        added \in BOOLEAN, pos \in OpenedPositions, q1 \in TickDiffs,
        add \in {[ok |-> TRUE, add_spread |-> 0], [ok |-> FALSE, add_spread |-> 0]},
        q2 \in TickDiffs }

(***************************************************************************)
(* BackpackAdapter.get_order_status (exchange_adapters.py, lines           *)
(* 1491-1557) on the venue's HTTP answer for an order of `quantity`: the   *)
(* status is lower-cased and mapped, a 404 is answered as "filled" with    *)
(* filled 0, any other code (or an exception) as "error".                  *)
(***************************************************************************)
Lower(s) ==
    CASE s = "New" -> "new"
      [] s = "PartiallyFilled" -> "partiallyfilled"
      [] s = "Filled" -> "filled"
      [] s = "Cancelled" -> "cancelled"
      [] OTHER -> s

backpack_get_order_status(response) ==
    IF response.code = 200
    THEN LET status == Lower(response.status)
         IN [status |-> CASE status \in {"new", "open", "partiallyFilled"} -> "open"
                          [] status \in {"filled", "executed"} -> "filled"
                          [] OTHER -> status,
             filled |-> response.executed, amount |-> response.quantity]
    ELSE IF response.code = 404
    THEN [status |-> "filled", filled |-> 0, amount |-> 0]
    ELSE [status |-> "error", filled |-> 0, amount |-> 0]

\* the venue's answers about an order of 2 units: its state with the
\* executed quantity that goes with it, "order not found", a server error
OrderResponses ==
    { [code |-> 200, status |-> "New", executed |-> 0, quantity |-> 2],
      [code |-> 200, status |-> "PartiallyFilled", executed |-> 1, quantity |-> 2],
      [code |-> 200, status |-> "Filled", executed |-> 2, quantity |-> 2],
      [code |-> 200, status |-> "Cancelled", executed |-> 0, quantity |-> 2],
      [code |-> 200, status |-> "Cancelled", executed |-> 1, quantity |-> 2],
      [code |-> 404, status |-> "", executed |-> 0, quantity |-> 0],
      [code |-> 500, status |-> "", executed |-> 0, quantity |-> 0] }

StatusCalls ==
    { [fn |-> "get_order_status", returned |-> FALSE, amount |-> 2,
       response |-> response] : response \in OrderResponses }

\* the books get_orderbook answers a call of get_spread with: those of Spec,
\* two more quotes, and books with one side empty
QuoteBooks ==
    Books \cup { MkBook(100, 101), MkBook(103, 104),
                 [ok |-> TRUE, bids |-> <<>>, asks |-> <<102, 103>>],
                 [ok |-> TRUE, bids |-> <<100, 99>>, asks |-> <<>>] }

SpreadCalls ==
    { [fn |-> "get_spread", returned |-> FALSE, book_a |-> book_a, book_b |-> book_b] :
        book_a \in QuoteBooks, book_b \in QuoteBooks }

\* the strategies stop_monitoring and cleanup are called on: monitoring never
\* started, running or stopped, with or without a position that is opened or
\* already closed
StopFns == {"stop_monitoring", "cleanup"}
StopCalls ==
    { [fn |-> "stop_monitoring", returned |-> FALSE, done |-> 0,
       strategy |-> [NewStrategy(1, 2) EXCEPT !.monitoring_active = active,
                                              !.has_added_position = added,
                                              !.positions = IF pos.exists THEN 1 ELSE 0],
       position |-> pos] :
        active \in BOOLEAN, added \in BOOLEAN,
        pos \in OpenedPositions \cup {NoPosition}
                \cup { [o EXCEPT !.status = "closed"] : o \in OpenedPositions } }

(***************************************************************************)
(* _check_position_status, lines 930-1008, for a position of age           *)
(* position_time (seconds): inside the hold time it returns at once (lines *)
(* 936-941); past it, it is PositionCheck on the venues' answers.  `asked` *)
(* are the answers it asked the venues for.                                *)
(***************************************************************************)
in_min_hold_never(position_time) == FALSE
in_min_hold(position_time) == position_time < min_hold_time

check_position_at(st, pos, position_time, q1, add, q2) ==
    IF in_min_hold(position_time)
    THEN [do |-> "none", add_spread |-> 0, asked |-> {}]
    ELSE LET out == PositionCheck(st, pos, q1, add, q2)
         IN [do |-> out.do, add_spread |-> out.add_spread,
             asked |-> (IF st.has_added_position THEN {} ELSE {"add_check"})
                       \cup (IF out.do \in {"add", "add_failed"}
                             THEN {"add_books"} ELSE {"close_check"})]

\* calls of _check_position_status on positions inside and past the hold time
HoldCalls ==
    { [fn |-> "check_position_at", returned |-> FALSE, position_time |-> age,
       strategy |-> [NewStrategy(1, 2) EXCEPT !.monitoring_active = TRUE,
                                              !.has_added_position = added,
                                              !.positions = 1],
       position |-> pos, add_check |-> q1, add_books |-> add, close_check |-> q2] :
        age \in {0, min_hold_time - 1, min_hold_time}, added \in BOOLEAN,
        pos \in OpenedPositions, q1 \in TickDiffs,
        add \in {[ok |-> TRUE, add_spread |-> 0], [ok |-> FALSE, add_spread |-> 0]},
        q2 \in { PriceDiff(get_spread(book, MkBook(100, 102))) :
                   book \in {NoBook, MkBook(185, 187), MkBook(225, 227)} } }

(***************************************************************************)
(* The request a venue adapter's place_order sends for (side, amount), as  *)
(* _place_order_internal and _place_market_order call it: always with      *)
(* order_type "limit" (exchange_adapters.py, OKX lines 169-234, Aster      *)
(* 633-694, Backpack 1324-1384).  pos_side is OKX's posSide; reduce_only   *)
(* is whether the request carries a reduce-only flag.                      *)
(***************************************************************************)
place_order(exchange, side, amount) ==
    [side |-> side, amount |-> amount, order_type |-> "limit",
     pos_side |-> IF exchange = "Okx"
                  THEN (IF side = "buy" THEN "long" ELSE "short") ELSE "none",
     reduce_only |-> FALSE]

\* the orders of a protocol: a maker order (_place_order_internal) or a
\* compensating one (_place_market_order), for a position entered on
\* entry_side that holds `amount`
PlaceCalls ==
    { [fn |-> "place_order", returned |-> FALSE, exchange |-> exchange,
       phase |-> ph, compensating |-> compensating, entry_side |-> entry_side,
       amount |-> amount] :
        exchange \in {"Aster", "Okx", "Backpack"}, ph \in Phases,
        compensating \in BOOLEAN, entry_side \in {"buy", "sell"}, amount \in 1..2 }

\* the mid prices determine_trading_direction is called with (doubled): venue
\* B's mid at, next to and between the two thresholds from venue A's mid of
\* 200, on either side of it, and the two venues swapped
DirectionCalls ==
    LET MidGaps == {0, 1, 119, 120, 121, 135, 149, 150, 151, 200}
    IN { [fn |-> "determine_trading_direction", returned |-> FALSE,
          mid2_a |-> mids[1], mid2_b |-> mids[2]] :
           mids \in { <<400, 400 + gap>> : gap \in MidGaps }
                    \cup { <<400 + gap, 400>> : gap \in MidGaps } }

(***************************************************************************)
(* The limit prices of the compensating orders, in thousandths of a price  *)
(* unit (a price p is kept as 1000 * p, so that the factors 1.001, 0.999,  *)
(* 1.005, 0.995, 1.002 and 0.998 stay integers).                           *)
(*   market_order_price   _place_market_order, lines 749-768: the fifth    *)
(*                        level of the opposite side, or its deepest level *)
(*                        moved by 0.1% when it has fewer than five        *)
(*   aggressive_price     _wait_for_order_fill_with_retry, lines 859-878:  *)
(*                        the tenth level moved by 0.2%, or the deepest    *)
(*                        level moved by 0.5%                              *)
(* NoPrice when the book cannot be read (the call gives up).               *)
(***************************************************************************)
market_order_price(book, side) ==
    IF ~Readable(book) THEN NoPrice
    ELSE IF side = "buy"
         THEN (IF Len(book.asks) >= 5 THEN 1000 * book.asks[5]
               ELSE 1001 * book.asks[Len(book.asks)])
         ELSE (IF Len(book.bids) >= 5 THEN 1000 * book.bids[5]
               ELSE 999 * book.bids[Len(book.bids)])

aggressive_price_flat(book, side) ==
    IF ~Readable(book) THEN NoPrice
    ELSE IF side = "buy"
         THEN (IF Len(book.asks) >= 10 THEN 1000 * book.asks[10]
               ELSE 1000 * book.asks[Len(book.asks)])
         ELSE (IF Len(book.bids) >= 10 THEN 1000 * book.bids[10]
               ELSE 1000 * book.bids[Len(book.bids)])

aggressive_price(book, side) ==
    IF ~Readable(book) THEN NoPrice
    ELSE IF side = "buy"
         THEN (IF Len(book.asks) >= 10 THEN 1002 * book.asks[10]
               ELSE 1005 * book.asks[Len(book.asks)])
         ELSE (IF Len(book.bids) >= 10 THEN 998 * book.bids[10]
               ELSE 995 * book.bids[Len(book.bids)])

\* calls of the price lookups on one book and one side: books of 1, 4, 5, 9
\* or 10 levels a side, bids descending from 100 and asks ascending from 100
\* or 101, the levels one price unit apart or all at one price
PriceCalls ==
    LET Depths == {1, 4, 5, 9, 10}
    IN { [fn |-> "order_prices", returned |-> FALSE, side |-> side,
          book |-> [ok |-> TRUE,
                    bids |-> [i \in 1..depth_b |-> 100 - step_b * (i - 1)],
                    asks |-> [i \in 1..depth_a |-> best_ask + step_a * (i - 1)]]] :
           side \in {"buy", "sell"}, depth_b \in Depths, depth_a \in Depths,
           step_b \in {0, 1}, step_a \in {0, 1}, best_ask \in {100, 101} }

(***************************************************************************)
(* _add_position, lines 1018-1098, on the two books it fetches and on what *)
(* became of its orders: "no_orders" (a limit order was not placed, line   *)
(* 1049), "failed" or "success" (the result of _monitor_and_hedge, line    *)
(* 1080).  The add-on spread is taken from the maker prices of the two     *)
(* books (lines 1032-1042) before the orders are placed; the position is   *)
(* returned as the call leaves it.                                         *)
(***************************************************************************)
add_position(pos, book_a, book_b, outcome) ==
    IF ~Readable(book_a) \/ ~Readable(book_b) THEN pos
    ELSE LET amount == pos.amount
             add_spread2 == 2 * Abs(MakerPrice(book_a, pos.side_a)
                                    - MakerPrice(book_b, pos.side_b))
         IN IF outcome = "success"
            THEN [pos EXCEPT !.entry_spread = weighted_spread(pos.entry_spread, pos.amount,
                                                              add_spread2, amount),
                             !.amount = pos.amount + amount]
            ELSE pos

\* calls of _add_position: the books of its two fetches, what became of its
\* orders, and the prices fill_a, fill_b at which the venues executed the
\* add-on's two orders when both filled
AddCalls ==
    { [fn |-> "add_position", returned |-> FALSE, position |-> pos,
       book_a |-> book_a, book_b |-> book_b, outcome |-> outcome,
       fill_a |-> fill_a, fill_b |-> fill_b] :
        pos \in OpenedPositions, book_a \in {NoBook, MkBook(100, 102)},
        book_b \in {EmptyBook, MkBook(200, 202)},
        outcome \in {"no_orders", "failed", "success"},
        fill_a \in {100, 102}, fill_b \in {200, 202} }

Calls == CheckCalls \cup StatusCalls \cup SpreadCalls \cup StopCalls \cup HoldCalls
             \cup PlaceCalls \cup DirectionCalls \cup AddCalls \cup PriceCalls

CallInit ==
    /\ call \in Calls
    /\ IF call.fn \in StopFns \cup {"check_position_at"}
       THEN SpecAtRest(call.strategy, call.position)
       ELSE SpecAtRest(NoStrategy, NoPosition)
    /\ tasks = NoTasks

\* _check_position_status past the hold time, on the drawn answers
CallCheckPositionStatus ==
    /\ call.fn = "check_position_status" /\ ~call.returned
    /\ call' = [fn |-> call.fn, returned |-> TRUE,
                has_added_position |-> call.has_added_position,
                position |-> call.position, add_check |-> call.add_check,
                add_books |-> call.add_books, close_check |-> call.close_check,
                out |-> PositionCheck([has_added_position |-> call.has_added_position],
                                      call.position, call.add_check, call.add_books,
                                      call.close_check)]
    /\ UNCHANGED <<specVars, tasks>>

\* one poll of the monitor on a Backpack leg: _get_order_status (lines
\* 549-562), then _is_order_filled on the reply (lines 606, 633)
CallGetOrderStatus ==
    /\ call.fn = "get_order_status" /\ ~call.returned
    /\ LET reply == backpack_get_order_status(call.response)
       IN call' = [fn |-> call.fn, returned |-> TRUE, amount |-> call.amount,
                   response |-> call.response, reply |-> reply,
                   seen_filled |-> is_order_filled(reply.status)]
    /\ UNCHANGED <<specVars, tasks>>

\* get_spread on the two books the venues answered
CallGetSpread ==
    /\ call.fn = "get_spread" /\ ~call.returned
    /\ call' = [fn |-> call.fn, returned |-> TRUE, book_a |-> call.book_a,
                book_b |-> call.book_b, out |-> get_spread(call.book_a, call.book_b)]
    /\ UNCHANGED <<specVars, tasks>>

\* one more call of stop_monitoring (lines 1223-1226) or of cleanup (lines
\* 1274-1277) on the strategy; call.fn is the method called last
CallStopMonitoring ==
    /\ call.fn \in StopFns /\ call.done < MaxStopCalls
    /\ \E fn \in StopFns :
         call' = [call EXCEPT !.fn = fn, !.returned = TRUE, !.done = @ + 1]
    /\ strategy' = stop_monitoring(strategy)
    /\ UNCHANGED <<inputVars, cliVars, pc, strategyLocals, hist, tasks>>

\* _check_position_status on a position of the drawn age, up to the first
\* order placement of an add-on or a closing; an add-on that gives up on its
\* books has returned, and the flag is set (lines 969-970)
CallCheckPositionAt ==
    /\ call.fn = "check_position_at" /\ ~call.returned
    /\ LET out == check_position_at(strategy, position, call.position_time,
                                    call.add_check, call.add_books, call.close_check)
       IN /\ call' = [fn |-> call.fn, returned |-> TRUE,
                      position_time |-> call.position_time,
                      strategy |-> call.strategy, position |-> call.position,
                      add_check |-> call.add_check, add_books |-> call.add_books,
                      close_check |-> call.close_check, out |-> out]
          /\ strategy' = IF out.do = "add_failed"
                         THEN [strategy EXCEPT !.has_added_position = TRUE]
                         ELSE strategy
    /\ UNCHANGED <<inputVars, cliVars, pc, strategyLocals, hist, tasks>>

\* one order of a protocol is submitted: the side is the entry side, or the
\* opposite side when closing (lines 1109-1110), the amount is
\* position.amount (lines 358-361, 615, 1021, 1114-1115, 1160)
CallPlaceOrder ==
    /\ call.fn = "place_order" /\ ~call.returned
    /\ LET side == IF call.phase = "close" THEN Opposite(call.entry_side)
                   ELSE call.entry_side
       IN call' = [fn |-> call.fn, returned |-> TRUE, exchange |-> call.exchange,
                   phase |-> call.phase, compensating |-> call.compensating,
                   entry_side |-> call.entry_side, amount |-> call.amount,
                   request |-> place_order(call.exchange, side, call.amount)]
    /\ UNCHANGED <<specVars, tasks>>

\* determine_trading_direction on the drawn mid prices
CallDetermineDirection ==
    /\ call.fn = "determine_trading_direction" /\ ~call.returned
    /\ call' = [fn |-> call.fn, returned |-> TRUE, mid2_a |-> call.mid2_a,
                mid2_b |-> call.mid2_b,
                out |-> determine_trading_direction(call.mid2_a, call.mid2_b)]
    /\ UNCHANGED <<specVars, tasks>>

\* _add_position on the drawn books and outcome
CallAddPosition ==
    /\ call.fn = "add_position" /\ ~call.returned
    /\ call' = [fn |-> call.fn, returned |-> TRUE, position |-> call.position,
                book_a |-> call.book_a, book_b |-> call.book_b,
                outcome |-> call.outcome, fill_a |-> call.fill_a,
                fill_b |-> call.fill_b,
                out |-> add_position(call.position, call.book_a, call.book_b,
                                     call.outcome)]
    /\ UNCHANGED <<specVars, tasks>>

\* the prices of the four tiers on the drawn book: the maker and the taker
\* price of _get_smart_order_price (in thousandths as the other two), the
\* price of _place_market_order and the price of a retry
CallOrderPrices ==
    /\ call.fn = "order_prices" /\ ~call.returned
    /\ call' = [fn |-> call.fn, returned |-> TRUE, side |-> call.side,
                book |-> call.book,
                maker |-> 1000 * get_smart_order_price(call.book, call.side, "limit"),
                taker |-> 1000 * get_smart_order_price(call.book, call.side, "market"),
                compensating |-> market_order_price(call.book, call.side),
                retry |-> aggressive_price(call.book, call.side)]
    /\ UNCHANGED <<specVars, tasks>>

CallNext ==
    \/ CallOrderPrices
    \/ CallAddPosition
    \/ CallDetermineDirection
    \/ CallPlaceOrder
    \/ CallCheckPositionAt
    \/ CallCheckPositionStatus
    \/ CallGetOrderStatus
    \/ CallGetSpread
    \/ CallStopMonitoring

CallSpec == CallInit /\ [][CallNext]_vars

(***************************************************************************)
(* MonitorSpec: the monitoring of one strategy that holds an opened        *)
(* position past its hold times, with start_monitoring and stop_monitoring *)
(* called by any task at any time.  The tasks are asyncio tasks: a task    *)
(* runs from one await to the next without interruption, so an action is   *)
(* the code between two awaits.  tasks[t].pc is where task t stands:       *)
(*   "idle"         start_monitoring not called yet                        *)
(*   "add_check"    in the add-on check's `await self.get_spread`          *)
(*   "adding"       in `await self._add_position` (position.amount read)   *)
(*   "close_check"  in the closing check's `await self.get_spread`         *)
(*   "closing"      in `await self._close_position`                        *)
(*   "sleeping"     in `await asyncio.sleep(1.0)`                          *)
(*   "returned"     start_monitoring has returned                          *)
(* The order protocols of an add-on and of a closing are followed in Spec; *)
(* here they are their outcome.                                            *)
(***************************************************************************)
LoopTasks == {"t1", "t2"}

MonitorInit ==
    /\ \E pos \in OpenedPositions :
         SpecAtRest([NewStrategy(1, 2) EXCEPT !.positions = 1], pos)
    /\ call = NoCall
    /\ tasks = [t \in LoopTasks |-> [pc |-> "idle", amount |-> 0]]

monitorFrame == <<caller, real_trade, loop_count, account_a, account_b, pc,
                  current_loop, loop_stats, dir, phase, leg, chase_count, order_a,
                  order_b, add_spread, mon_result, exec_result, hold_elapsed,
                  filled_qty, live_orders, hist, call>>

TaskAt(t, where) == [tasks EXCEPT ![t].pc = where]

\* start_monitoring, lines 904-919, and _check_position_status up to its
\* first await (lines 930-947 or 974), for the task t that has passed the
\* loop's sleep or has just set the flag in strategy st: the loop test, the
\* active positions, and the test of has_added_position
LoopIterationUnstoppable(t, st) ==
    IF position.status # "opened"
    THEN /\ strategy' = [st EXCEPT !.monitoring_active = FALSE]
         /\ tasks' = TaskAt(t, "returned")
    ELSE /\ tasks' = TaskAt(t, IF ~st.has_added_position
                               THEN "add_check" ELSE "close_check")
         /\ strategy' = st

LoopIteration(t, st) ==
    IF ~st.monitoring_active
    THEN /\ tasks' = TaskAt(t, "returned")
         /\ strategy' = st
    ELSE IF position.status # "opened"
    THEN /\ strategy' = [st EXCEPT !.monitoring_active = FALSE]
         /\ tasks' = TaskAt(t, "returned")
    ELSE /\ tasks' = TaskAt(t, IF ~st.has_added_position
                               THEN "add_check" ELSE "close_check")
         /\ strategy' = st

\* start_monitoring, lines 897-902, and the first iteration of its loop up
\* to the first await
StartMonitoring(t) ==
    /\ tasks[t].pc \in {"idle", "returned"}
    /\ IF strategy.monitoring_active
       THEN /\ tasks' = TaskAt(t, "returned")
            /\ UNCHANGED strategy
       ELSE LoopIteration(t, [strategy EXCEPT !.monitoring_active = TRUE])
    /\ UNCHANGED <<monitorFrame, position>>

\* stop_monitoring, called while the flag is set
StopMonitoring ==
    /\ strategy.monitoring_active
    /\ strategy' = stop_monitoring(strategy)
    /\ UNCHANGED <<monitorFrame, position, tasks>>

\* the loop's sleep is over (line 922) and the next iteration begins
Wake(t) ==
    /\ tasks[t].pc = "sleeping"
    /\ LoopIteration(t, strategy)
    /\ UNCHANGED <<monitorFrame, position>>

\* _check_position_status, lines 947-969, and _add_position up to its first
\* await (lines 1018-1023)
AddCheck(t) ==
    /\ tasks[t].pc = "add_check"
    /\ \E q \in TickDiffs :
         tasks' = IF should_add(position, q.diff2)
                  THEN [tasks EXCEPT ![t] = [pc |-> "adding",
                                             amount |-> position.amount]]
                  ELSE TaskAt(t, "close_check")
    /\ UNCHANGED <<monitorFrame, strategy, position>>

\* _add_position from its last await on (lines 1080-1098), then
\* _check_position_status, lines 970-971, and the loop's sleep
AddReturns(t) ==
    /\ tasks[t].pc = "adding"
    /\ \E add \in AddSpreads(position), success \in BOOLEAN :
         position' =
            IF add.ok /\ success
            THEN [position EXCEPT
                    !.entry_spread = weighted_spread(position.entry_spread,
                                                     position.amount, add.add_spread,
                                                     tasks[t].amount),
                    !.amount = position.amount + tasks[t].amount]
            ELSE position
    /\ strategy' = [strategy EXCEPT !.has_added_position = TRUE]
    /\ tasks' = [tasks EXCEPT ![t] = [pc |-> "sleeping", amount |-> 0]]
    /\ UNCHANGED monitorFrame

\* _check_position_status, lines 974-1008
CloseCheck(t) ==
    /\ tasks[t].pc = "close_check"
    /\ \E q \in TickDiffs :
         tasks' = TaskAt(t, IF ~q.failed /\ should_close(position, q.diff2)
                            THEN "closing" ELSE "sleeping")
    /\ UNCHANGED <<monitorFrame, strategy, position>>

\* _close_position has returned: its monitor saw both legs filled or not
CloseReturns(t) ==
    /\ tasks[t].pc = "closing"
    /\ \E filled_a \in BOOLEAN, filled_b \in BOOLEAN :
         position' = CloseOutcome(position, filled_a, filled_b)
    /\ tasks' = TaskAt(t, "sleeping")
    /\ UNCHANGED <<monitorFrame, strategy>>

MonitorNext ==
    \/ \E t \in LoopTasks : StartMonitoring(t)
    \/ StopMonitoring
    \/ \E t \in LoopTasks : AddCheck(t)
    \/ \E t \in LoopTasks : AddReturns(t)
    \/ \E t \in LoopTasks : CloseCheck(t)
    \/ \E t \in LoopTasks : CloseReturns(t)
    \/ \E t \in LoopTasks : Wake(t)

MonitorSpec == MonitorInit /\ [][MonitorNext]_vars

(***************************************************************************)
(* MonitorLiveSpec: the monitoring of one strategy by the one task that    *)
(* calls start_monitoring, as the execute command does (arbitrage.py, line *)
(* 114), with stop_monitoring called at any time.  The event loop runs a   *)
(* task that can run (weak fairness of the task's steps), and the venues   *)
(* are fair: a closing check that is repeated forever is at some time      *)
(* answered with a spread that meets the exit condition, and closing       *)
(* attempts that are repeated forever at some time see both legs filled.   *)
(***************************************************************************)
MonitorLiveNext ==
    \/ StartMonitoring("t1")
    \/ StopMonitoring
    \/ AddCheck("t1")
    \/ AddReturns("t1")
    \/ CloseCheck("t1")
    \/ CloseReturns("t1")
    \/ Wake("t1")

MonitorLiveSpec ==
    /\ MonitorInit
    /\ [][MonitorLiveNext]_vars
    /\ WF_vars(AddCheck("t1") \/ AddReturns("t1") \/ CloseCheck("t1")
                  \/ CloseReturns("t1") \/ Wake("t1"))
    /\ SF_vars(CloseCheck("t1") /\ tasks'["t1"].pc = "closing")
    /\ SF_vars(CloseReturns("t1") /\ position'.status = "closed")

(***************************************************************************)
(* HedgeSpec: one run of _monitor_and_hedge (opening, add-on) or of        *)
(* _monitor_close_and_hedge (closing) over two maker orders, followed from *)
(* await to await.  `call` holds the locals of the run:                    *)
(*   at             the await the coroutine stands in: "sleep" (line 596 / *)
(*                  1146), "status_a", "status_b" (603-604 / 1150-1151),   *)
(*                  "cancel" (612, 639 / 1159, 1183), "place" (614-615,    *)
(*                  641-642 / 1160, 1184), "wait" (622, 649 / 1167, 1191), *)
(*                  or "returned"                                          *)
(*   check_count    check_count                                            *)
(*   in_flight      the venue requests issued and not yet answered         *)
(*   status_a, status_b   the status replies of this tick ("none": not     *)
(*                  yet asked for)                                         *)
(*   cancel_result  what _cancel_order returned ("none": not called)       *)
(*   market_price   the taker price looked up for the compensating order   *)
(*   comp           the compensating order on the venue                    *)
(* As in Spec, an open order fills, if it does, when the venue is asked    *)
(* about it.                                                               *)
(***************************************************************************)
HedgeCall0 == [fn |-> "monitor_and_hedge", returned |-> FALSE, at |-> "sleep",
               check_count |-> 0, in_flight |-> {}, status_a |-> "none",
               status_b |-> "none", cancel_result |-> "none",
               market_price |-> NoPrice, comp |-> "none"]

\* the monitor is entered with the two orders as their placement left them:
\* resting, or filled while they were placed
HedgeInit ==
    /\ caller = "api" /\ real_trade = TRUE /\ loop_count = 1
    /\ account_a = 1 /\ account_b = 2
    /\ pc = "monitor"
    /\ current_loop = 0
    /\ loop_stats = [success |-> 0, failed |-> 0]
    /\ phase \in Phases
    /\ strategy = [NewStrategy(1, 2) EXCEPT !.positions = IF phase = "open" THEN 0 ELSE 1]
    /\ \E pos \in OpenedPositions :
         position = IF phase = "open" THEN [pos EXCEPT !.status = "pending"] ELSE pos
    /\ dir = NoDirection
    /\ leg = "a"
    /\ chase_count = 0
    /\ order_a \in {"open", "filled"}
    /\ order_b \in {"open", "filled"}
    /\ add_spread = 0
    /\ mon_result = "none"
    /\ exec_result = "none"
    /\ hold_elapsed = (phase # "open")
    /\ filled_qty = [v \in Venues |->
                       IF (IF v = "a" THEN order_a ELSE order_b) = "filled" THEN 1 ELSE 0]
    /\ live_orders = FALSE
    /\ hist = [Hist0 EXCEPT !.proto.placed = TRUE]
    /\ call = HedgeCall0
    /\ tasks = NoTasks

hedgeFrame == <<inputVars, cliVars, pc, strategy, dir, phase, chase_count, add_spread,
                exec_result, hold_elapsed, tasks>>

HedgeAt(where) == call.fn = "monitor_and_hedge" /\ call.at = where

\* the loop's sleep is over (lines 596-600 / 1146-1147) and the status of
\* order a is asked for
HedgeSleep ==
    /\ HedgeAt("sleep") /\ call.check_count < MaxTicks
    /\ call' = [call EXCEPT !.check_count = @ + 1, !.at = "status_a",
                            !.in_flight = {"status_a"},
                            !.status_a = "none", !.status_b = "none"]
    /\ UNCHANGED <<hedgeFrame, position, leg, order_a, order_b, mon_result,
                   filled_qty, live_orders, hist>>

\* _get_order_status of order a has answered (line 603 / 1150) and the
\* status of order b is asked for (line 604 / 1151)
HedgeStatusA ==
    /\ HedgeAt("status_a")
    /\ \E ra \in PollReplies(order_a) :
         /\ order_a' = AfterPoll(order_a, ra)
         /\ filled_qty' = IncIf(order_a' # order_a, filled_qty, "a")
         /\ call' = [call EXCEPT !.status_a = ra, !.at = "status_b",
                                 !.in_flight = (@ \ {"status_a"}) \cup {"status_b"}]
    /\ UNCHANGED <<hedgeFrame, position, leg, order_b, mon_result, live_orders, hist>>

\* the await that follows when one leg has been seen filled: the cancel of
\* the other leg's order (lines 607-612, 634-639 / 1154-1159, 1178-1183)
AfterFillSeenPlacing(ph) == "place"
AfterFillSeen(ph) == "cancel"

\* _get_order_status of order b has answered (line 604 / 1151), and the
\* replies are looked at (lines 607, 634 / 1154, 1178): the first leg seen
\* filled starts the compensation of the other, else the loop goes on
HedgeStatusB ==
    /\ HedgeAt("status_b")
    /\ \E rb \in PollReplies(order_b) :
         /\ order_b' = AfterPoll(order_b, rb)
         /\ filled_qty' = IncIf(order_b' # order_b, filled_qty, "b")
         /\ IF is_order_filled(call.status_a) \/ is_order_filled(rb)
            THEN /\ leg' = IF is_order_filled(call.status_a) THEN "b" ELSE "a"
                 /\ call' = [call EXCEPT !.status_b = rb, !.at = AfterFillSeen(phase),
                                         !.in_flight = {AfterFillSeen(phase)}]
                 /\ hist' = [hist EXCEPT
                               !.proto.deciding_tick =
                                   IF is_order_filled(call.status_a) /\ is_order_filled(rb)
                                   THEN "both" ELSE "one"]
            ELSE /\ call' = [call EXCEPT !.status_b = rb, !.at = "sleep",
                                         !.in_flight = {}]
                 /\ UNCHANGED <<leg, hist>>
    /\ UNCHANGED <<hedgeFrame, position, order_a, mon_result, live_orders>>

\* _cancel_order of the other leg's order has returned (line 612, 639 /
\* 1159, 1183): True when the venue cancelled it; its result is not used
HedgeCancel ==
    /\ HedgeAt("cancel")
    /\ LET ol == IF leg = "a" THEN order_a ELSE order_b
       IN \E after \in CancelOutcomes(ol) :
            /\ order_a' = IF leg = "a" THEN after ELSE order_a
            /\ order_b' = IF leg = "b" THEN after ELSE order_b
            /\ filled_qty' = IncIf(ol = "open" /\ after = "filled", filled_qty, leg)
            /\ live_orders' = (live_orders \/ after = "open")
            /\ call' = [call EXCEPT
                          !.cancel_result = IF after = "cancelled" THEN "true" ELSE "false",
                          !.at = "place", !.in_flight = {"place"}]
    /\ hist' = [hist EXCEPT !.proto.cancel_req = TRUE]
    /\ UNCHANGED <<hedgeFrame, position, leg, mon_result>>

\* the monitor returns `result` with the position as it leaves it
HedgeReturns(result, pos, c) ==
    /\ mon_result' = result
    /\ position' = pos
    /\ call' = [c EXCEPT !.returned = TRUE, !.at = "returned", !.in_flight = {}]

\* the taker price is looked up (line 614, 641; not when closing) and
\* _place_market_order has returned (line 615, 642 / 1160, 1184): with an
\* order id the wait for the fill begins, else the loop is left by `break`
HedgePlace ==
    /\ HedgeAt("place")
    /\ \E market_price \in MarketPrices(OrderSide(phase, leg)),
          hres \in HedgePlaceResults :
         LET h1 == [hist EXCEPT !.proto.hedge_place_result = hres]
         IN /\ hist' = IF hres = "nobook" THEN h1 ELSE NotePlace(h1)
            /\ IF hres = "ok"
               THEN /\ call' = [call EXCEPT !.market_price = market_price,
                                            !.comp = "open", !.at = "wait",
                                            !.in_flight = {"wait"}]
                    /\ UNCHANGED <<position, mon_result>>
               ELSE HedgeReturns(BreakResult(phase),
                                 MonitorLeaves(phase, position, leg, FALSE, NoPrice),
                                 [call EXCEPT !.market_price = market_price])
    /\ UNCHANGED <<hedgeFrame, leg, order_a, order_b, filled_qty, live_orders>>

\* _wait_for_order_fill_with_retry has returned (lines 622-631, 649-658 /
\* 1167-1175, 1191-1199)
HedgeWait ==
    /\ HedgeAt("wait")
    /\ \E out \in wait_for_order_fill_with_retry(0, leg, phase, filled_qty,
                                                 live_orders, hist) :
         /\ filled_qty' = out.fq
         /\ live_orders' = out.lv
         /\ hist' = out.h
         /\ IF out.ok
            THEN HedgeReturns("true",
                              MonitorLeaves(phase, position, leg, TRUE, call.market_price),
                              [call EXCEPT !.comp = "filled"])
            ELSE HedgeReturns("false", position, call)
    /\ UNCHANGED <<hedgeFrame, leg, order_a, order_b>>

HedgeNext ==
    \/ HedgeSleep
    \/ HedgeStatusA
    \/ HedgeStatusB
    \/ HedgeCancel
    \/ HedgePlace
    \/ HedgeWait

HedgeSpec == HedgeInit /\ [][HedgeNext]_vars

(***************************************************************************)
(* FillsSpec: the fill monitors of the legacy ArbitrageEngine              *)
(* (core/arbitrage_engine.py): _check_and_handle_fills (lines 434-553) and *)
(* _check_and_handle_universal_fills (lines 1186-1299), over the two maker *)
(* orders of a trade.  `call` holds the locals of the run:                 *)
(*   fn            "check_and_handle_fills" or                             *)
(*                 "check_and_handle_universal_fills"                      *)
(*   a_filled, b_filled   aster_filled / exchange_a_filled and okx_filled  *)
(*                 / exchange_b_filled                                     *)
(*   order_a, order_b     the venue's state of the order behind each       *)
(*                 order id                                                *)
(*   check_count5  check_count modulo 5, all that the code reads of it     *)
(*                 (line 1207); the first monitor has no counter           *)
(*   fills         the orders of each leg that the venue executed (an      *)
(*                 accepted market order executes)                         *)
(*   result        what the call returned ("none": it has not returned)    *)
(* One action is one iteration of the `while` loop.                        *)
(***************************************************************************)
\* ArbitrageEngine.is_order_filled (lines 416-432) on the status string of a
\* status reply, whose quantities go with its status; NoReply: not a dict
engine_is_order_filled(reply) ==
    reply # NoReply /\ reply \in {"filled", "closed", "complete", "completed"}

FillsInit ==
    /\ call \in { [fn |-> fn, returned |-> FALSE, result |-> "none",
                   a_filled |-> FALSE, b_filled |-> FALSE,
                   order_a |-> oa, order_b |-> ob, check_count5 |-> 0,
                   fills |-> [v \in Venues |->
                               IF (IF v = "a" THEN oa ELSE ob) = "filled"
                               THEN 1 ELSE 0]] :
                    fn \in {"check_and_handle_fills",
                            "check_and_handle_universal_fills"},
                    oa \in {"open", "filled"}, ob \in {"open", "filled"} }
    /\ SpecAtRest(NoStrategy, NoPosition)
    /\ tasks = NoTasks

(***************************************************************************)
(* One iteration of the loop (lines 443-550 / 1193-1296): both orders are  *)
(* polled; the first leg seen filled has the other leg's order cancelled   *)
(* and a market order placed, and the other flag is set when that order    *)
(* comes back with an id; else _check_and_handle_fills cancels and         *)
(* replaces the order of a leg whose maker price has drifted (lines        *)
(* 502-540).  Every exception is caught and the loop goes on.              *)
(***************************************************************************)
FillsPoll ==
    /\ call.fn \in {"check_and_handle_fills", "check_and_handle_universal_fills"}
    /\ ~call.returned /\ ~(call.a_filled /\ call.b_filled)
    /\ \E ra \in PollReplies(call.order_a), rb \in PollReplies(call.order_b) :
         LET oa == AfterPoll(call.order_a, ra)
             ob == AfterPoll(call.order_b, rb)
             fq1 == IncIf(oa # call.order_a, call.fills, "a")
             fq2 == IncIf(ob # call.order_b, fq1, "b")
             polled == [call EXCEPT
                          !.order_a = oa, !.order_b = ob, !.fills = fq2,
                          !.check_count5 =
                              IF call.fn = "check_and_handle_universal_fills"
                              THEN (@ + 1) % 5 ELSE @]
         IN IF ~call.a_filled /\ engine_is_order_filled(ra)
            THEN \E after \in CancelOutcomes(ob), hres \in PlaceResults :
                   call' = [polled EXCEPT
                              !.a_filled = TRUE, !.order_b = after,
                              !.b_filled = @ \/ hres = "ok",
                              !.fills = IncIf(hres = "ok",
                                              IncIf(ob = "open" /\ after = "filled",
                                                    fq2, "b"), "b")]
            ELSE IF ~call.b_filled /\ engine_is_order_filled(rb)
            THEN \E after \in CancelOutcomes(oa), hres \in PlaceResults :
                   call' = [polled EXCEPT
                              !.b_filled = TRUE, !.order_a = after,
                              !.a_filled = @ \/ hres = "ok",
                              !.fills = IncIf(hres = "ok",
                                              IncIf(oa = "open" /\ after = "filled",
                                                    fq2, "a"), "a")]
            ELSE IF call.fn = "check_and_handle_fills"
            THEN \E drift \in {"none", "a", "b"}, res \in PlaceResults :
                   CASE drift = "a" /\ ~call.a_filled ->
                          \E after \in CancelOutcomes(oa) :
                            call' = [polled EXCEPT
                                       !.order_a = IF res = "ok" THEN "open" ELSE after,
                                       !.fills = IncIf(oa = "open" /\ after = "filled",
                                                       fq2, "a")]
                     [] drift = "b" /\ ~call.b_filled ->
                          \E after \in CancelOutcomes(ob) :
                            call' = [polled EXCEPT
                                       !.order_b = IF res = "ok" THEN "open" ELSE after,
                                       !.fills = IncIf(ob = "open" /\ after = "filled",
                                                       fq2, "b")]
                     [] OTHER -> call' = polled
            ELSE call' = polled
    /\ UNCHANGED <<specVars, tasks>>

\* the loop test fails and the monitor returns True (lines 552-553 /
\* 1298-1299), its only return
FillsReturn ==
    /\ call.fn \in {"check_and_handle_fills", "check_and_handle_universal_fills"}
    /\ ~call.returned /\ call.a_filled /\ call.b_filled
    /\ call' = [call EXCEPT !.returned = TRUE, !.result = "true"]
    /\ UNCHANGED <<specVars, tasks>>

FillsNext ==
    \/ FillsPoll
    \/ FillsReturn

\* the event loop runs the monitor whenever it can take a step
FillsSpec == FillsInit /\ [][FillsNext]_vars /\ WF_vars(FillsNext)

(***************************************************************************)
(* Properties.                                                             *)
(***************************************************************************)

\* C1: when execute_arbitrage(real_trade=True) has returned True and the
\* position has status "opened", both legs have filled, for the same
\* quantity, whatever the venues answered on the way (the compensating
\* order accepted, falsy, or without an order id).
C1_OpenedLegsBalanced ==
    (pc = "exec_done" /\ ArgRealTrade /\ exec_result = "true"
        /\ position.status = "opened")
    => (filled_qty["a"] = 1 /\ filled_qty["b"] = 1)

\* C2: when one leg has filled and the compensating order stays unfilled
\* through all 3 waits of _wait_for_order_fill_with_retry, _monitor_and_hedge
\* returns False; when this happens while opening, execute_arbitrage returns
\* False, the position does not join the strategy's positions and no order is
\* placed afterwards for it.
C2_ExhaustionReturnsFalse ==
    /\ (hist.proto.exhausted /\ phase \in {"open", "add"}
            /\ pc \in {"exec_done", "monitoring"})
       => mon_result = "false"
    /\ hist.cyc.exhausted
       => /\ exec_result = "false"
          /\ strategy.positions = 0
          /\ position.status = "pending"
          /\ ~hist.cyc.placed_after
          /\ pc \in {"exec_done", "cli_loop", "cli_done", "api_done"}

\* C2 witness: the execute command has counted a cycle as failed whose
\* compensating order went unfilled through all its waits, one leg filled
\* and the other not.
C2_Witness ==
    /\ caller = "cli" /\ pc = "cli_done"
    /\ hist.cyc.exhausted /\ hist.proto.waits = hedge_max_retries
    /\ hist.proto.deciding_tick = "one"
    /\ filled_qty["a"] + filled_qty["b"] = 1
    /\ loop_stats.failed = 1

\* C3: when the compensating order has exhausted its retries without
\* filling, the position's status is "failed"; it is not left "pending" or
\* "opened".
C3_ExhaustionMarksFailed ==
    (hist.proto.exhausted /\ pc \in {"exec_done", "monitoring"})
    => position.status = "failed"

\* C4: when both maker orders report filled on the same poll tick of
\* _monitor_and_hedge, no cancel is requested and no compensating order is
\* submitted, and the opening succeeds with the position "opened".
C4_BothFilledNoCompensation ==
    (hist.proto.deciding_tick = "both" /\ phase \in {"open", "add"})
    => /\ ~hist.proto.cancel_req
       /\ hist.proto.hedge_place_result = "none_yet"
       /\ (pc = "exec_done" => exec_result = "true" /\ position.status = "opened")

\* C5: once a cycle of the execute command has ended with the compensation
\* retries exhausted, no later step creates a strategy or places an order,
\* whatever the loop count.
C5_LoopHaltsAfterExhaustion ==
    [][hist.exhausted_cycle
         => /\ hist'.strategies_created = hist.strategies_created
            /\ (hist'.proto.placed => hist.proto.placed)]_vars

\* C6: when an add-on attempt has ended and the position is kept "opened"
\* and monitored, the add-on's fills on venue A equal its fills on venue B.
C6_AddOnLeavesHedged ==
    (phase = "add" /\ pc = "monitoring" /\ position.status = "opened")
    => filled_qty["a"] = filled_qty["b"]

\* C7: the status is "closed" only as the result of a closing whose two legs
\* were both seen filled (the first by the monitor's poll, the other through
\* its compensating order), both venues having filled; a closing that timed
\* out, or whose compensating order was not placed or did not fill, leaves
\* the status "opened".
C7_ClosedOnlyAfterBothLegs ==
    /\ position.status = "closed"
       => /\ phase = "close"
          /\ pc \in {"monitoring", "verify", "cli_loop", "cli_done"}
          /\ pc = "monitoring"
             => /\ mon_result = "true"
                /\ hist.proto.deciding_tick \in {"one", "both"}
                /\ hist.proto.hedge_place_result = "ok"
                /\ ~hist.proto.exhausted
                /\ filled_qty["a"] >= 1 /\ filled_qty["b"] >= 1
    /\ (phase = "close" /\ pc = "monitoring"
            /\ \/ hist.proto.deciding_tick = "timeout"
               \/ hist.proto.hedge_place_result \in {"none", "noid", "nobook"}
               \/ mon_result = "false")
       => position.status = "opened"

\* C7 witness: a closing has ended "closed" after one closing order filled
\* and the other leg's compensating order filled on a retry.
C7_Witness ==
    /\ position.status = "closed" /\ pc = "monitoring" /\ phase = "close"
    /\ mon_result = "true"
    /\ hist.proto.deciding_tick = "one"
    /\ hist.proto.waits >= 1

\* C8: a dry run (real_trade false) places and cancels no order and adds no
\* position to the strategy's positions, and when it ends (its accounts
\* being valid) it has run the decision logic: the spread was fetched and a
\* direction chosen.
C8_DryRunDecidesWithoutOrders ==
    ~real_trade
    => /\ ~hist.proto.placed /\ ~hist.proto.cancel_req
       /\ pc \notin {"place", "monitor", "wait", "monitoring"}
       /\ strategy.positions = 0
       /\ (pc \in {"cli_done", "api_done"} /\ validate_accounts(account_a, account_b).ok)
          => (hist.proto.decided /\ dir # NoDirection)

C10_FailedTickNoDecision ==
    hist.proto.failed_tick
    => /\ dir = NoDirection
       /\ pc = "entry_loop"
       /\ ~position.exists
       /\ ~hist.proto.placed

\* C11: a call of _check_position_status past the hold time in which
\* get_spread failed (a mid price of 0) triggers neither an add-on nor a
\* closing, for convergence and divergence positions alike: the add-on check
\* whose get_spread failed does not enter _add_position, and the closing
\* check whose get_spread failed does not close.
C11_FailedSpreadNoTrade ==
    (call.fn = "check_position_status" /\ call.returned)
    => /\ (~call.has_added_position /\ call.add_check.failed)
          => call.out.do \notin {"add", "add_failed"}
       /\ (call.out.do \in {"close", "none"} /\ call.close_check.failed)
          => call.out.do = "none"
\* C12: whatever the order of monitoring ticks, start_monitoring and
\* stop_monitoring calls and add-on outcomes, the amount of a position is
\* raised by an add-on at most once: a position opened with amount 1 holds 1,
\* or 2 after its add-on.
C12_AddOnAtMostOnce ==
    position.exists => position.amount <= 2
\* C13: the monitor takes a leg for filled only when the venue reports a
\* filled quantity of at least the requested quantity; a status reply with
\* filled quantity 0 (the adapter's "order not found" reply) or with an
\* unknown or error status is not taken for a fill, so it does not start the
\* cancel-and-compensate branch.
C13_FilledMeansFilledQuantity ==
    (call.fn = "get_order_status" /\ call.returned /\ call.seen_filled)
    => /\ call.reply.filled >= call.amount
       /\ call.reply.filled > 0
\* C14: when one leg of an opening filled first and the other leg was
\* compensated by a taker order that filled within its waits, the stored
\* entry price of the compensated leg is the price at which the compensating
\* order filled (for leg b when a filled first, and the other way round).
C14_CompensatedEntryPrice ==
    (pc = "exec_done" /\ phase = "open" /\ exec_result = "true"
        /\ hist.proto.deciding_tick = "one" /\ hist.proto.hedged_leg # "none")
    => IF hist.proto.hedged_leg = "b"
       THEN position.entry_price_b = hist.proto.fill_price
       ELSE position.entry_price_a = hist.proto.fill_price
\* C15: in every state in which the position is "opened", its stored
\* entry_spread is abs(entry_price_a - entry_price_b) (doubled here, as the
\* spreads are): after a compensated opening, after a successful add-on, and
\* when the price lookup for the compensating order returned nothing.
C15_EntrySpreadMatchesPrices ==
    position.status = "opened"
    => position.entry_spread = 2 * Abs(position.entry_price_a - position.entry_price_b)
\* C16: a monitor run for one opening, add-on or closing ends within its hard
\* ceiling (check_count > 600 ticks of 0.1 s), the time spent waiting for the
\* compensating order included, and a run that reached the ceiling without
\* both legs filled reports failure.
C16_MonitorWithinCeiling ==
    (pc \in {"exec_done", "monitoring"} /\ hist.proto.deciding_tick # "none")
    => /\ MonitorTicksAtLeast(hist) <= monitor_max_checks + 1
       /\ hist.proto.deciding_tick = "timeout" => mon_result = "false"
\* C17: _wait_for_order_fill_with_retry with max_retries = 3 comes to an end
\* from every state it is called in, after at most 3 waits; after each wait
\* that timed out but the last it asks for the cancellation of the order and
\* submits a replacement, at most 2 replacements in all; when the waits are
\* exhausted, or a replacement could not be placed, it returns False.
C17_WaitWithRetryBounded ==
    /\ hist.proto.waits <= hedge_max_retries
    /\ hist.proto.wait_cancels <= hedge_max_retries - 1
    /\ hist.proto.resubmits <= hist.proto.wait_cancels
    /\ pc = "wait"
       => wait_for_order_fill_with_retry(0, leg, phase, filled_qty, live_orders,
                                         hist) # {}
    /\ (pc \in {"exec_done", "monitoring"} /\ hist.proto.hedge_place_result = "ok")
       => /\ mon_result \in {"true", "false"}
          /\ hist.proto.exhausted
             => /\ hist.proto.waits = hedge_max_retries
                /\ hist.proto.wait_cancels = hedge_max_retries - 1
                /\ hist.proto.resubmits = hedge_max_retries - 1
                /\ mon_result = "false"
          /\ mon_result = "true"
             => /\ hist.proto.waits < hedge_max_retries
                /\ hist.proto.wait_cancels = hist.proto.waits
                /\ hist.proto.resubmits = hist.proto.waits
          /\ (mon_result = "false" /\ ~hist.proto.exhausted)
             => /\ hist.proto.waits \in 1..(hedge_max_retries - 1)
                /\ hist.proto.wait_cancels = hist.proto.waits
                /\ hist.proto.resubmits \in {hist.proto.waits - 1, hist.proto.waits}

\* C17 witness: a wait-with-retry has ended after 3 timed-out waits, 2 cancel
\* requests and 2 replacement orders, and the monitor has returned False.
C17_Witness ==
    /\ pc \in {"exec_done", "monitoring"}
    /\ hist.proto.exhausted /\ hist.proto.waits = 3
    /\ hist.proto.wait_cancels = 2 /\ hist.proto.resubmits = 2
    /\ mon_result = "false"
\* C18: past the hold time and with valid book data, _check_position_status
\* starts the closing of a convergence position exactly when the current
\* absolute mid-price difference is below 90% of entry_spread, and of a
\* divergence position exactly when it is above 110% of entry_spread; in any
\* other tick no closing is started (a tick that goes into the add-on has
\* read a difference that does not meet the closing condition).
C18_CloseThresholds ==
    (call.fn = "check_position_status" /\ call.returned)
    => LET pos == call.position
           add_taken == call.out.do \in {"add", "add_failed"}
           closing_due(diff2) ==
               IF pos.strategy_type = "convergence"
               THEN 100 * diff2 < 90 * pos.entry_spread
               ELSE 100 * diff2 > 110 * pos.entry_spread
       IN /\ (~add_taken /\ ~call.close_check.failed)
             => (call.out.do = "close" <=> closing_due(call.close_check.diff2))
          /\ call.out.do \in {"add", "add_failed", "close", "none"}
          /\ add_taken => ~closing_due(call.add_check.diff2)

\* C18 witness: a convergence position entered at a spread of 100 (doubled:
\* 200) is checked while the mids differ by 85 (doubled: 170), and its
\* closing is started.
C18_Witness ==
    /\ call.fn = "check_position_status" /\ call.returned
    /\ call.position.strategy_type = "convergence"
    /\ call.position.entry_spread = 200
    /\ ~call.close_check.failed /\ call.close_check.diff2 = 170
    /\ call.out.do = "close"
\* C19: a cycle is declared clean (verify_no_open_positions returns True and
\* the execute command counts the cycle as a success) only if the queries of
\* both venues answered and each reported no open position and no open
\* order; a venue that still has a position or an order, or whose query did
\* not answer, makes the cycle not clean.
C19_CleanOnlyIfAllAnswered ==
    /\ hist.cyc.verify_result = "true"
       => ~hist.cyc.verify_open /\ ~hist.cyc.verify_unanswered
    /\ (hist.cyc.verify_open \/ hist.cyc.verify_unanswered)
       => hist.cyc.verify_result = "false" /\ loop_stats.failed >= 1
\* C20: for two books that each have a best bid and a best ask, get_spread
\* returns spread_1 = best_bid_B - best_ask_A, spread_2 = best_bid_A -
\* best_ask_B, best_spread = the larger of the two, and each mid =
\* (bid + ask) / 2 (kept doubled: bid + ask); when either book is missing or
\* has an empty side, all five results are 0.
C20_SpreadFormula ==
    (call.fn = "get_spread" /\ call.returned)
    => LET a == call.book_a
           b == call.book_b
           out == call.out
           whole(book) == book.ok /\ book.bids # <<>> /\ book.asks # <<>>
       IN IF whole(a) /\ whole(b)
          THEN /\ out.spread_1 = Head(b.bids) - Head(a.asks)
               /\ out.spread_2 = Head(a.bids) - Head(b.asks)
               /\ out.best_spread \in {out.spread_1, out.spread_2}
               /\ out.best_spread >= out.spread_1
               /\ out.best_spread >= out.spread_2
               /\ out.mid2_a = Head(a.bids) + Head(a.asks)
               /\ out.mid2_b = Head(b.bids) + Head(b.asks)
          ELSE /\ out.spread_1 = 0 /\ out.spread_2 = 0 /\ out.best_spread = 0
               /\ out.mid2_a = 0 /\ out.mid2_b = 0

\* C20 witness: venue A quotes 100/101 and venue B 103/104, and get_spread
\* has returned the spreads 2 and -4, 2 as the best, and the mids 100.5 and
\* 103.5 (doubled: 201 and 207).
C20_Witness ==
    /\ call.fn = "get_spread" /\ call.returned
    /\ call.book_a = MkBook(100, 101)
    /\ call.book_b = MkBook(103, 104)
    /\ call.out = [spread_1 |-> 2, spread_2 |-> -4, best_spread |-> 2,
                   mid2_a |-> 201, mid2_b |-> 207]
\* C21: stop_monitoring and cleanup, called any number of times in any order
\* on a strategy whose monitoring runs, was stopped or was never started, and
\* whose position is opened, closed or absent: after each call
\* monitoring_active is False, nothing else of the strategy and nothing of the
\* position has changed, no order was placed or cancelled, and the call has
\* returned; the state after several calls is the state after one.
C21_StopIsIdempotent ==
    (call.fn \in StopFns /\ call.done >= 1)
    => /\ call.returned
       /\ ~strategy.monitoring_active
       /\ strategy = [call.strategy EXCEPT !.monitoring_active = FALSE]
       /\ position = call.position
       /\ ~hist.proto.placed /\ ~hist.proto.cancel_req
       /\ filled_qty = ZeroQty /\ ~live_orders
       /\ order_a = "none" /\ order_b = "none"

\* C21 witness: cleanup has returned as the third call on a strategy that was
\* never monitored and whose position is already closed.
C21_Witness ==
    /\ call.fn = "cleanup" /\ call.done = 3
    /\ ~call.strategy.monitoring_active
    /\ call.position.status = "closed"
    /\ position.status = "closed"
    /\ ~strategy.monitoring_active
\* C22: get_order_status of a venue adapter answers with a status out of
\* open, filled, cancelled and error, whatever the venue's raw status and
\* whatever went wrong (HTTP error, order not found), and a partially filled
\* order is answered as "open".
C22_StatusNormalized ==
    (call.fn = "get_order_status" /\ call.returned)
    => /\ call.reply.status \in {"open", "filled", "cancelled", "error"}
       /\ call.response.status = "PartiallyFilled" => call.reply.status = "open"
\* C23: in a race-resolution tick of an opening, an add-on or a closing, the
\* cancel of the unfilled leg's order has been requested and has returned
\* when the compensating order is submitted on that venue: no compensating
\* order is submitted, or waited for, for a leg whose order was not asked to
\* cancel, and no cancel request is in flight at that time.
C23_CancelBeforeCompensation ==
    (call.fn = "monitor_and_hedge"
        /\ \/ call.at \in {"place", "wait"}
           \/ call.comp # "none"
           \/ hist.proto.hedge_place_result # "none_yet")
    => /\ call.cancel_result # "none"
       /\ hist.proto.cancel_req
       /\ "cancel" \notin call.in_flight

\* C23 witness: a closing in which the cancel of leg b's order came back
\* without success, and the compensating order for leg b has then been
\* submitted and is waited for.
C23_Witness ==
    /\ call.fn = "monitor_and_hedge" /\ call.at = "wait"
    /\ phase = "close" /\ leg = "b"
    /\ call.cancel_result = "false"
    /\ call.comp = "open"
\* C24: when the unfilled leg's order was reported open and its cancel did
\* not succeed, the monitor places a compensating order for that leg only if the order has
\* not filled (which it finds out by asking for its status again), so that
\* no leg is filled twice, by its maker order and by a compensating order.
C24_NoCompensationForFilledLeg ==
    (call.fn = "monitor_and_hedge" /\ hist.proto.deciding_tick = "one"
        /\ (IF leg = "a" THEN call.status_a ELSE call.status_b) = "open")
    => /\ (call.cancel_result = "false" /\ call.comp # "none")
          => (IF leg = "a" THEN order_a ELSE order_b) # "filled"
       /\ filled_qty["a"] <= 1 /\ filled_qty["b"] <= 1
\* C25: once a status check (the fast-fill check of the placement included)
\* has seen one leg filled while the other leg is not, the compensation of
\* the other leg begins within one poll interval (one tick of 0.1 s): the
\* engine is in no state with leg a seen filled, leg b not, and more than one
\* tick of sleep before the poll that leads to the cancel.
C25_CompensationWithinOneTick ==
    (pc \in {"place", "monitor"} /\ order_a = "filled" /\ order_b # "filled")
    => TicksBeforeFirstPoll(phase, pc) <= 1
\* C26: on opening, the two maker orders are submitted together: while only
\* leg a's order has been submitted (leg b's placement has not begun), no
\* step polls the status of order a (which is how a fill of it is seen) and
\* no step cancels and replaces it.
C26_LegsSubmittedTogether ==
    [][(pc = "place" /\ phase = "open" /\ leg = "a")
         => (filled_qty' = filled_qty /\ chase_count' \in {chase_count, 0})]_vars
\* C27: in a monitor tick the status requests for the two legs are issued
\* together: while the request for order a is in flight the request for
\* order b is in flight too, and the reply for a is not looked at before the
\* request for b has been issued.
C27_StatusPolledTogether ==
    call.fn = "monitor_and_hedge"
    => /\ "status_a" \in call.in_flight => "status_b" \in call.in_flight
       /\ (call.at = "status_b" /\ "status_b" \in call.in_flight)
          => call.status_a = "none"
\* C28: a venue call that fails (a book fetch, a status poll, a cancel or an
\* order placement that raises or answers nothing) is a non-fatal event for
\* the monitors: a monitor run reports failure only when it timed out (600
\* ticks without a fill) or when the compensation retries were exhausted.
C28_FailureOnlyTimeoutOrExhaustion ==
    (pc \in {"exec_done", "monitoring"} /\ mon_result = "false")
    => (hist.proto.deciding_tick = "timeout" \/ hist.proto.exhausted)
\* C29: while the age of a position is below the minimum hold time of 60 s,
\* _check_position_status asks the venues for nothing (no book, no order, no
\* cancel) and leaves the position (status, amount, entry prices,
\* entry_spread) and the strategy's has_added_position as they were.
C29_HoldTimeSuppressesCheck ==
    (call.fn = "check_position_at" /\ call.returned /\ call.position_time < 60)
    => /\ call.out.asked = {}
       /\ call.out.do = "none"
       /\ position = call.position
       /\ strategy = call.strategy
       /\ ~hist.proto.placed /\ ~hist.proto.cancel_req
       /\ order_a = "none" /\ order_b = "none"

\* C29 witness: a convergence position entered at a spread of 100 is checked
\* at the age of 59 s while the mids differ by 85, which past the hold time
\* starts its closing; the call has returned and nothing was asked for.
C29_Witness ==
    /\ call.fn = "check_position_at" /\ call.returned
    /\ call.position_time = 59
    /\ call.strategy.has_added_position
    /\ call.position.strategy_type = "convergence"
    /\ call.position.entry_spread = 200
    /\ ~call.close_check.failed /\ call.close_check.diff2 = 170
    /\ call.out.do = "none" /\ call.out.asked = {}
\* C30: a closing order, maker or compensating, is on the opposite side of
\* its leg's entry side, for the position's current amount (1, or 2 after an
\* add-on), and reduce-only: it carries the venue's reduce-only flag and, on
\* OKX, the position side of the position it closes, so that it cannot open
\* or increase a position.
C30_ClosingReduceOnly ==
    (call.fn = "place_order" /\ call.returned /\ call.phase = "close")
    => /\ call.request.side = Opposite(call.entry_side)
       /\ call.request.amount = call.amount
       /\ call.request.reduce_only
       /\ call.exchange = "Okx"
          => call.request.pos_side = IF call.entry_side = "buy" THEN "long" ELSE "short"
\* C31: determine_trading_direction opens only outside the band.  For a
\* difference of the mids above 75 it returns a convergence trade that sells
\* on the higher-priced venue and buys on the lower-priced one; below 60 a
\* divergence trade that buys on the higher-priced venue and sells on the
\* lower-priced one; from 60 to 75 (both included) no trade.  A trade it
\* returns has one buy side and one sell side.  (Mids are doubled: 75 is 150.)
C31_DirectionOutsideBand ==
    (call.fn = "determine_trading_direction" /\ call.returned)
    => LET diff2 == Abs(call.mid2_a - call.mid2_b)
           out == call.out
           high_side == IF call.mid2_a > call.mid2_b THEN out.side_a ELSE out.side_b
           low_side == IF call.mid2_a > call.mid2_b THEN out.side_b ELSE out.side_a
       IN /\ diff2 > 150
             => /\ out.strategy_type = "convergence"
                /\ high_side = "sell" /\ low_side = "buy"
          /\ diff2 < 120
             => /\ out.strategy_type = "divergence"
                /\ call.mid2_a # call.mid2_b => (high_side = "buy" /\ low_side = "sell")
          /\ (diff2 >= 120 /\ diff2 <= 150) => out = NoDirection
          /\ out # NoDirection
             => {out.side_a, out.side_b} = {"buy", "sell"}

\* C31 witness: the mids differ by exactly 75 (venue A lower) and the call
\* has returned no trade.
C31_Witness ==
    /\ call.fn = "determine_trading_direction" /\ call.returned
    /\ call.mid2_b - call.mid2_a = 150
    /\ call.out = NoDirection
\* C32: an add-on is triggered only after the hold period and only when the
\* current spread is above 120% of entry_spread (convergence) or below 80% of
\* it (divergence).  After a successful add-on the position's amount is old +
\* added and its entry_spread is the quantity-weighted mean of the old entry
\* spread and the spread of the prices the add-on's orders were filled at;
\* after a failed add-on amount and entry_spread are unchanged.
C32_AddOnWeightedByFills ==
    /\ (call.fn = "check_position_at" /\ call.returned
            /\ call.out.do \in {"add", "add_failed"})
       => /\ call.position_time >= min_hold_time
          /\ should_add(call.position, call.add_check.diff2)
    /\ (call.fn = "add_position" /\ call.returned)
       => LET old == call.position
              readable(book) == book.ok /\ book.bids # <<>> /\ book.asks # <<>>
          IN IF call.outcome = "success" /\ readable(call.book_a) /\ readable(call.book_b)
             THEN /\ call.out.amount = old.amount + old.amount
                  /\ 2 * call.out.entry_spread
                        = old.entry_spread + 2 * Abs(call.fill_a - call.fill_b)
             ELSE /\ call.out.amount = old.amount
                  /\ call.out.entry_spread = old.entry_spread
\* C33: on every book sorted as the adapter contract requires (bids
\* descending, asks ascending, best bid <= best ask) the order prices are
\* ordered by aggressiveness: for a buy, maker price (best bid) <= taker price
\* (best ask) <= price of the first compensating order <= price of a retry;
\* for a sell, the reverse order.
C33_TiersOrdered ==
    (call.fn = "order_prices" /\ call.returned)
    => /\ call.maker = 1000 * (IF call.side = "buy" THEN Head(call.book.bids)
                               ELSE Head(call.book.asks))
       /\ call.taker = 1000 * (IF call.side = "buy" THEN Head(call.book.asks)
                               ELSE Head(call.book.bids))
       /\ IF call.side = "buy"
          THEN /\ call.maker <= call.taker
               /\ call.taker <= call.compensating
               /\ call.compensating <= call.retry
          ELSE /\ call.maker >= call.taker
               /\ call.taker >= call.compensating
               /\ call.compensating >= call.retry

\* C33 witness: a buy on a book of four ask levels 101..104 against a best
\* bid of 100: maker 100, taker 101, compensating order at 104 * 1.001 and
\* retry at 104 * 1.005.
C33_Witness ==
    /\ call.fn = "order_prices" /\ call.returned /\ call.side = "buy"
    /\ call.book.asks = <<101, 102, 103, 104>>
    /\ call.maker = 100000 /\ call.taker = 101000
    /\ call.compensating = 104104 /\ call.retry = 104520
\* C34: whenever execute_arbitrage(real_trade=True) has returned False,
\* whatever the reason (the second leg's placement failed after the first
\* was accepted, the monitor timed out, or the compensation was exhausted), no
\* order that it placed still rests on a venue (open, unfilled and not
\* cancelled).
C34_NoLiveOrderAfterFailure ==
    (pc = "exec_done" /\ ArgRealTrade /\ exec_result = "false")
    => ~live_orders

\* C35: when _wait_for_order_fill_with_retry has returned False, every
\* compensating order it waited on has been asked to cancel, the last one
\* included: there are at least as many cancel requests as waits that timed
\* out.
C35_FailedWaitCancelsAll ==
    (pc \in {"exec_done", "monitoring"} /\ mon_result = "false"
        /\ hist.proto.waits > 0)
    => hist.proto.wait_cancels >= hist.proto.waits
\* C36: across monitoring ticks a position never has more than one live
\* closing order per venue: no tick of start_monitoring begins a closing
\* attempt (places its first closing order) while an order of the closing
\* attempt before it, which failed or timed out, still rests on a venue.
C36_OneClosingOrderPerVenue ==
    [][(pc = "monitoring" /\ phase = "close" /\ live_orders)
         => ~(pc' = "place" /\ phase' = "close")]_vars
\* C37: _place_limit_order_with_chase(max_retries=3) submits at most four
\* orders, and whatever the venue does between its status checks and its
\* cancels, at most one of the orders it submitted ends up resting or filled:
\* when the placement of leg a has returned, the fills of its orders, its
\* returned order if it rests, and a superseded order left resting count at
\* most one.
C37_ChaseFillsOnce ==
    /\ chase_count <= chase_max_retries
    /\ (pc = "place" /\ leg = "b" /\ chase_count = 0)
       => filled_qty["a"] + (IF order_a = "open" THEN 1 ELSE 0)
                          + (IF live_orders THEN 1 ELSE 0) <= 1
\* C38: at most one monitoring loop runs per strategy instance, for every
\* interleaving of start_monitoring and stop_monitoring calls: no two tasks
\* are inside the loop of start_monitoring at the same time.
C38_OneMonitoringLoop ==
    Cardinality({ t \in LoopTasks : tasks # NoTasks
                     /\ tasks[t].pc \notin {"idle", "returned"} }) <= 1
C40_FillMonitorsTerminate ==
    /\ <>(call.returned)
    /\ [](call.returned /\ call.result = "true"
            => (call.fills["a"] >= 1 /\ call.fills["b"] >= 1))

====
